---------------------------- MODULE Spec2Model ----------------------------
(***************************************************************************)
(* State-machine model of the neko-message-plane event store               *)
(* (src/neko-message-plane/src/types.rs), of the bus.publish and           *)
(* bus.get_recent request handlers (handlers.rs) and of the ingest loop    *)
(* (main.rs), for the store "messages".                                    *)
(*                                                                         *)
(* Threads: the RPC workers and the ingest thread.  Every call on the      *)
(* store is split at its accesses to shared objects: the atomic counter    *)
(* next_seq, the concurrent maps meta / topics / read_cache and the        *)
(* per-topic reader-writer lock.                                           *)
(*                                                                         *)
(* Locks.  `topics` is a DashMap.  DashMap::entry(..).or_insert_with(..)   *)
(* returns a RefMut that owns the WRITE guard of the map shard of the key; *)
(* the guard is released when the RefMut is dropped.  In Store::publish    *)
(* (types.rs:121) and Store::replace_topic (types.rs:152) the RefMut is    *)
(* bound to the local `queue`, which lives to the end of the function      *)
(* (types.rs:147 and 174).  DashMap::get takes the READ guard of the       *)
(* shard.  The shard lock is not reentrant.  shard_w records the thread    *)
(* that owns the write guard of each shard.  The per-topic RwLock is only  *)
(* ever taken by a thread that holds the shard guard of that topic, so it  *)
(* is never contended and its critical sections are single steps.          *)
(***************************************************************************)
EXTENDS Integers, Sequences, FiniteSets, TLC

(* ------------------------------ bounds -------------------------------- *)
\* cli.store_maxlen ranges over 0 .. MaxStoreMaxlen (config.rs:15-16)
MaxStoreMaxlen == 2
\* cli.topic_max, NEKO_MESSAGE_PLANE_TOPIC_MAX (config.rs:18-19, 126)
CfgTopicMax == 1
\* longest `items` array of an ingest snapshot
MaxRecords == 1
\* largest `limit` argument of bus.get_recent
MaxLimit == 1
\* highest seq of the store contents the read operations are applied to
MaxQSeq == 3
\* longest operand list of the plan operators
MaxListLen == 3
\* number of events published in a run of the pub channel
MaxPub == 2
\* number of get_recent calls in a run of the store
MaxGets == 1

Workers == {"w1", "w2"}
Ingest == "ing"
Threads == Workers \cup {Ingest}
NoThread == "none"
Topics == {"t1", "t2"}
\* A payload is a JSON object; of its keys the model keeps the ones the index
\* extractor reads.  An absent or empty string key is "", an absent
\* `priority` reads as 0 (utils.rs:97-104), an absent `timestamp` is NoTs.
NoTs == -1
Payload(plugin_id, kind, priority, timestamp, id) ==
    [plugin_id |-> plugin_id, source |-> "", kind |-> kind, type |-> "",
     priority |-> priority, timestamp |-> timestamp, id |-> id]
Payloads == {Payload("A", "", 5, NoTs, "")}
\* SystemTime::now() of the publishes of a run (types.rs:88-91)
NowTs == 3
StoreName == "messages"
\* A shard of the DashMap `topics` is named by the first topic hashed to it.
Shards == Topics
Limits == 0 .. MaxLimit

VARIABLES
    maxlen,      \* Store.maxlen
    topic_max,   \* Store.topic_max
    shard_of,    \* the shard of `topics` each key hashes to (fixed per run)
    next_seq,    \* Store.next_seq
    topics,      \* Store.topics: topic -> buffer (front first)
    meta,        \* Store.meta: topic -> TopicMeta
    read_cache,  \* Store.read_cache: topic -> Vec<Event>
    shard_w,     \* owner of the write guard of each shard of `topics`
    pc,          \* position of each thread
    op,          \* locals of the call each thread is in: the topic, the
                 \* records to publish, the event under construction and
                 \* the events returned so far (`out`)
    ret,         \* last response / return value of each thread
    created,     \* history: every Event constructed, in order of fetch_add
    pushed,      \* history: events pushed to each topic since its last clear
    unchecked,   \* history: some publish was admitted without the cap check
    pub_enabled, \* cli.pub_enabled / NEKO_MESSAGE_PLANE_PUB_ENABLED
    pub_rx,      \* the mpsc channel pub_tx -> pub_rx of PubMsg
    pub_sent,    \* the frames sent on the PUB socket, in order
    acked,       \* history: the events bus.publish answered success with
    xs,          \* apply_unary_op / apply_binary_op: the (left) operand
    ys,          \* apply_binary_op: the right operand
    validate_mode,          \* NEKO_MESSAGE_PLANE_VALIDATE_MODE, lowercased
    validate_payload_bytes, \* NEKO_MESSAGE_PLANE_VALIDATE_PAYLOAD_BYTES
    task_q,      \* the channel task_tx -> task_rx of (envelope, body)
    result_q,    \* the channel result_tx -> result_rx of (envelope, resp_raw)
    task,        \* the (envelope, body) each worker took from task_rx
    alive,       \* the worker threads that have not terminated
    router_in,   \* history: the multipart messages the ROUTER received
    handled,     \* history: the body, the handler and the answer of each task
    router_out,  \* the multipart messages sent on the ROUTER, in order
    batch,       \* handle_delta_batch: the items still to be looked at
    ingest_log,  \* history: the ingest items and snapshots and their fate
    stores,      \* MpState.stores: name -> the capacities of the Store
    metrics,     \* Store.metrics_total_publishes, metrics_total_queries,
                 \* metrics_cache_hits, metrics_cache_misses
    calls        \* history: the number of get_recent and get_since calls

vars == <<maxlen, topic_max, shard_of, next_seq, topics, meta, read_cache,
          shard_w, pc, op, ret, created, pushed, unchecked, pub_enabled,
          pub_rx, pub_sent, acked, xs, ys, validate_mode,
          validate_payload_bytes, task_q, result_q, task, alive, router_in,
          handled, router_out, batch, ingest_log, stores, metrics, calls>>

hist_vars == <<created, pushed, unchecked>>

cfg_vars == <<maxlen, topic_max, shard_of, stores>>

store_vars == <<next_seq, topics, meta, read_cache>>

pub_vars == <<pub_enabled, pub_rx, pub_sent, acked>>

list_vars == <<xs, ys>>

metric_vars == <<metrics, calls>>

\* the settings, the RPC transport and the ingest loop
rpc_vars == <<validate_mode, validate_payload_bytes, task_q, result_q, task,
              alive, router_in, handled, router_out, batch, ingest_log>>

(* ------------------------------ values -------------------------------- *)
\* utils.rs:72-155: extract_index of an object payload.
ExtractIndex(payload, default_ts) ==
    [plugin_id |-> payload.plugin_id,
     source |-> payload.source,
     priority |-> payload.priority,
     kind |-> payload.kind,
     type |-> payload.type,
     timestamp |-> IF payload.timestamp = NoTs THEN default_ts
                   ELSE payload.timestamp,
     id |-> payload.id]

\* types.rs:94-111: the Event of a publish.
MkEvent(seq, ts, store, topic, payload) ==
    [seq |-> seq, ts |-> ts, store |-> store, topic |-> topic,
     payload |-> payload, index |-> ExtractIndex(payload, ts)]

NoEvent == MkEvent(0, 0, "", "", Payload("", "", 0, NoTs, ""))

NoOp == [via |-> "none", topic |-> "", items |-> <<>>, ev |-> NoEvent,
         out |-> <<>>]

NoRet == [kind |-> "none", items |-> <<>>]

Min(a, b) == IF a < b THEN a ELSE b

\* the functions f with f[k] = v added or overwritten
Put(f, k, v) == [x \in (DOMAIN f) \cup {k} |-> IF x = k THEN v ELSE f[x]]

\* sequences over S of length at most n
SeqsUpTo(S, n) == UNION {[1 .. k -> S] : k \in 0 .. n}

\* the last n elements of q
LastN(q, n) == SubSeq(q, Len(q) - n + 1, Len(q))

EmptyMap == [x \in {} |-> <<>>]

\* usize::max
Larger(a, b) == IF a < b THEN b ELSE a

\* (StoreNewSmaller: the floor of a profile is taken as its ceiling.)
StoreNewSmaller(m, t, dm, fm, dt, ft) ==
    [maxlen |-> Min(m \div dm, fm), topic_max |-> Min(t \div dt, ft)]

\* types.rs:261-283: `Store::new((maxlen / dm).max(fm), (topic_max /
\* dt).max(ft))`, the capacities of a store with a profile.  The operands
\* are usize and the quotients are not larger than them, so nothing wraps.
StoreNew(m, t, dm, fm, dt, ft) ==
    [maxlen |-> Larger(m \div dm, fm), topic_max |-> Larger(t \div dt, ft)]

\* types.rs:253-290: MpState::new(maxlen, topic_max), the map `stores`.
MpStateNew(m, t) ==
    [name \in {"messages", "events", "lifecycle", "runs", "export",
               "memory"} |->
        CASE name = "messages" -> [maxlen |-> m, topic_max |-> t]
          [] name = "events" -> StoreNew(m, t, 2, 10000, 2, 1000)
          [] name = "lifecycle" -> StoreNew(m, t, 20, 1000, 4, 500)
          [] name = "runs" -> StoreNew(m, t, 40, 500, 10, 200)
          [] name = "export" -> StoreNew(m, t, 4, 5000, 4, 500)
          [] name = "memory" -> StoreNew(m, t, 10, 2000, 2, 1000)]

\* a worker that holds no task
NoTask == [envelope |-> <<>>, body |-> [form |-> "none"], id |-> 0]

\* main.rs:52-53, 114-120 and the defaults of the validation settings
\* (handlers.rs:22-24, 482-492): the channels are empty, every worker waits
\* in task_rx.recv().
\* types.rs:70-73, 142: the counters of a store whose publishes, n of them,
\* have returned and that has not been read
MetricsAfter(n) ==
    [total_publishes |-> n, total_queries |-> 0, cache_hits |-> 0,
     cache_misses |-> 0]

NoCalls == [get_recent |-> 0, get_since |-> 0]

RpcInit ==
    /\ validate_mode = "strict"
    /\ validate_payload_bytes = TRUE
    /\ task_q = <<>>
    /\ result_q = <<>>
    /\ task = [w \in Workers |-> NoTask]
    /\ alive = Workers
    /\ router_in = <<>>
    /\ handled = <<>>
    /\ router_out = <<>>
    /\ batch = <<>>
    /\ ingest_log = <<>>

(* ------------------------------- Store -------------------------------- *)
Init ==
    /\ maxlen \in 0 .. MaxStoreMaxlen
    /\ topic_max = CfgTopicMax
    /\ stores = MpStateNew(maxlen, topic_max)
    /\ shard_of \in {f \in [Topics -> Shards] : f["t1"] = "t1"}
    /\ next_seq = 1
    /\ topics = EmptyMap
    /\ meta = EmptyMap
    /\ read_cache = EmptyMap
    /\ shard_w = [s \in Shards |-> NoThread]
    /\ pc = [t \in Threads |-> "idle"]
    /\ op = [t \in Threads |-> NoOp]
    /\ ret = [t \in Threads |-> NoRet]
    /\ created = <<>>
    /\ pushed = [t \in Topics |-> <<>>]
    /\ unchecked = FALSE
    /\ pub_enabled = TRUE
    /\ pub_rx = <<>>
    /\ pub_sent = <<>>
    /\ acked = <<>>
    /\ xs = <<>>
    /\ ys = <<>>
    /\ metrics = MetricsAfter(next_seq - 1)
    /\ calls = NoCalls
    /\ RpcInit


(* --------------------------- topic-cap check --------------------------- *)
\* `is_new_topic && meta.len() >= topic_max`, with topic_max the configured
\* cli.topic_max (handlers.rs:494-497, main.rs:39): the check of the text
\* path of bus.publish and of the ingest loop.
TopicCapReached(topic) ==
    /\ topic \notin DOMAIN meta
    /\ Cardinality(DOMAIN meta) >= CfgTopicMax

Call(via, topic, items) ==
    [via |-> via, topic |-> topic, items |-> items, ev |-> NoEvent,
     out |-> <<>>]

(* ------------------------- bus.publish handlers ------------------------ *)
\* handle_rpc, op "bus.publish": the cap check, then Store::publish.
RpcPublishText(t, topic, payload) ==
    /\ pc[t] = "idle"
    /\ IF TopicCapReached(topic)
          THEN /\ ret' = [ret EXCEPT ![t] = [NoRet EXCEPT !.kind = "too_many_topics"]]
               /\ UNCHANGED <<pc, op>>
          ELSE /\ pc' = [pc EXCEPT ![t] = "seq"]
               /\ op' = [op EXCEPT ![t] = Call("rpc", topic, <<payload>>)]
               /\ ret' = [ret EXCEPT ![t] = NoRet]
    /\ UNCHANGED <<cfg_vars, metric_vars, pub_vars, list_vars, rpc_vars, store_vars, shard_w, hist_vars>>

\* handle_publish_mp: Store::publish without a cap check.
RpcPublishMp(t, topic, payload) ==
    /\ pc[t] = "idle"
    /\ pc' = [pc EXCEPT ![t] = "seq"]
    /\ op' = [op EXCEPT ![t] = Call("rpc", topic, <<payload>>)]
    /\ ret' = [ret EXCEPT ![t] = NoRet]
    /\ unchecked' = TRUE
    /\ UNCHANGED <<cfg_vars, metric_vars, pub_vars, list_vars, rpc_vars, store_vars, shard_w, created, pushed>>

(* ------------------------------ ingest --------------------------------- *)
\* handle_delta_batch, one item: a rejected item is skipped.
IngestDelta(topic, payload) ==
    /\ pc[Ingest] = "idle"
    /\ IF TopicCapReached(topic)
          THEN UNCHANGED <<pc, op, ret>>
          ELSE /\ pc' = [pc EXCEPT ![Ingest] = "seq"]
               /\ op' = [op EXCEPT ![Ingest] = Call("delta", topic, <<payload>>)]
               /\ ret' = [ret EXCEPT ![Ingest] = NoRet]
    /\ UNCHANGED <<cfg_vars, metric_vars, pub_vars, list_vars, rpc_vars, store_vars, shard_w, hist_vars>>

\* handle_snapshot: mode "append" publishes each record, any other mode
\* calls Store::replace_topic.
IngestSnapshot(topic, records, mode) ==
    /\ pc[Ingest] = "idle"
    /\ IF TopicCapReached(topic) \/ (mode = "append" /\ records = <<>>)
          THEN UNCHANGED <<pc, op, ret>>
          ELSE /\ pc' = [pc EXCEPT ![Ingest] =
                            IF mode = "append" THEN "seq" ELSE "r_entry"]
               /\ op' = [op EXCEPT ![Ingest] = Call(mode, topic, records)]
               /\ ret' = [ret EXCEPT ![Ingest] = NoRet]
    /\ UNCHANGED <<cfg_vars, metric_vars, pub_vars, list_vars, rpc_vars, store_vars, shard_w, hist_vars>>

(* --------------------------- Store::publish ---------------------------- *)
\* (FetchAddLost: the increment is lost, as with a separate load and store.)
\* next_seq.fetch_add(1, SeqCst): the new value of the counter.  The counter
\* is a u64; a thread allocates at most one seq per call and the calls
\* modelled here are far fewer than 2^64, so it never wraps.
FetchAddLost(v) == v

FetchAdd(v) == v + 1

\* types.rs:92-111: allocate the seq and construct the event.
PublishSeq(t) ==
    /\ pc[t] = "seq"
    /\ LET ev == MkEvent(next_seq, NowTs, StoreName, op[t].topic,
                          op[t].items[Len(op[t].out) + 1])
       IN  /\ op' = [op EXCEPT ![t].ev = ev]
           /\ created' = Append(created, ev)
    /\ next_seq' = FetchAdd(next_seq)
    /\ pc' = [pc EXCEPT ![t] = "meta_entry"]
    /\ UNCHANGED <<cfg_vars, metric_vars, pub_vars, list_vars, rpc_vars, topics, meta, read_cache, shard_w, ret, pushed,
                   unchecked>>

\* a publish that creates no metadata entry for a new topic
MetaEntryMissing(m, topic) == m

\* or_insert_with of the metadata entry
MetaEntry(m, topic) ==
    IF topic \in DOMAIN m THEN m ELSE Put(m, topic, [count_total |-> 0])

\* types.rs:114-118: meta.entry(topic).or_insert_with(count_total 0).
PublishMetaEntry(t) ==
    /\ pc[t] = "meta_entry"
    /\ meta' = MetaEntry(meta, op[t].topic)
    /\ pc' = [pc EXCEPT ![t] = "topics_entry"]
    /\ UNCHANGED <<cfg_vars, metric_vars, pub_vars, list_vars, rpc_vars, next_seq, topics, read_cache, shard_w, op, ret,
                   hist_vars>>

\* (ShardAlwaysFree: the map is entered without waiting for the guard.)
\* The write guard (DashMap::entry) or the read guard (DashMap::get) of the
\* shard of `topic` can be taken: no thread, the caller included, owns the
\* write guard.  Read guards are only held within single steps.
ShardAlwaysFree(topic) == TRUE

ShardFree(topic) == shard_w[shard_of[topic]] = NoThread

\* (HoldShardDropped: the guard is dropped as soon as the entry is found.)
\* The guard taken by DashMap::entry stays with the RefMut it returns.
HoldShardDropped(w, s, t) == w

HoldShard(w, s, t) == [w EXCEPT ![s] = t]

\* types.rs:121-123: `queue` = topics.entry(topic).or_insert_with(empty);
\* the guard stays with `queue`.
PublishTopicsEntry(t) ==
    /\ pc[t] = "topics_entry"
    /\ ShardFree(op[t].topic)
    /\ shard_w' = HoldShard(shard_w, shard_of[op[t].topic], t)
    /\ topics' = IF op[t].topic \in DOMAIN topics THEN topics
                 ELSE Put(topics, op[t].topic, <<>>)
    /\ pc' = [pc EXCEPT ![t] = "write"]
    /\ UNCHANGED <<cfg_vars, metric_vars, pub_vars, list_vars, rpc_vars, next_seq, meta, read_cache, op, ret, hist_vars>>

\* `while q.len() > maxlen { q.pop_front() }`
RECURSIVE TrimFront(_, _)
TrimFront(q, n) == IF Len(q) > n THEN TrimFront(Tail(q), n) ELSE q

\* (PushBackNoTrim: the trimming loop is missing.)
PushBackNoTrim(q, ev, n) == Append(q, ev)

\* types.rs:126-132: under queue.write(): push_back, then trim.
PushBack(q, ev, n) == TrimFront(Append(q, ev), n)


PublishWrite(t) ==
    /\ pc[t] = "write"
    /\ topics' = [topics EXCEPT ![op[t].topic] = PushBack(@, op[t].ev, maxlen)]
    /\ pushed' = [pushed EXCEPT ![op[t].topic] = Append(@, op[t].ev)]
    /\ pc' = [pc EXCEPT ![t] = "meta_update"]
    /\ UNCHANGED <<cfg_vars, metric_vars, pub_vars, list_vars, rpc_vars, next_seq, meta, read_cache, shard_w, op, ret,
                   created, unchecked>>

\* types.rs:135-138: meta.get_mut(topic): count_total.saturating_add(1).
PublishMetaUpdate(t) ==
    /\ pc[t] = "meta_update"
    /\ meta' = IF op[t].topic \in DOMAIN meta
               THEN [meta EXCEPT ![op[t].topic].count_total = @ + 1]
               ELSE meta
    /\ pc' = [pc EXCEPT ![t] = "update_read_cache"]
    /\ UNCHANGED <<cfg_vars, metric_vars, pub_vars, list_vars, rpc_vars, next_seq, topics, read_cache, shard_w, op, ret,
                   hist_vars>>

\* types.rs:141, 200-208: update_read_cache: topics.get(topic) takes the READ
\* guard of the shard, then queue.try_read() and read_cache.insert.  The
\* caller owns the write guard of that shard since types.rs:121, so the
\* guard of this step is false wherever its pc is reached: the step never
\* happens and is no disjunct of Next.
UpdateReadCache(t) ==
    /\ pc[t] = "update_read_cache"
    /\ ShardFree(op[t].topic)
    /\ read_cache' = IF op[t].topic \in DOMAIN topics
                     THEN Put(read_cache, op[t].topic, topics[op[t].topic])
                     ELSE read_cache
    /\ pc' = [pc EXCEPT ![t] = "return"]
    /\ UNCHANGED <<cfg_vars, metric_vars, pub_vars, list_vars, rpc_vars, next_seq, topics, meta, shard_w, op, ret,
                   hist_vars>>

\* types.rs:141-147: count the publish, return the event and drop `queue`;
\* then the caller:
\* the RPC handler answers (handlers.rs:411-440, 642-670), the delta item is
\* done (main.rs:361-373), the snapshot loops (main.rs:283-285,
\* types.rs:170-171).  It follows UpdateReadCache, so it never happens either.
PublishReturn(t) ==
    /\ pc[t] = "return"
    /\ shard_w' = HoldShard(shard_w, shard_of[op[t].topic], NoThread)
    /\ IF op[t].via # "replace" /\ Len(op[t].out) + 1 = Len(op[t].items)
          THEN /\ pc' = [pc EXCEPT ![t] = "idle"]
               /\ op' = [op EXCEPT ![t] = NoOp]
               /\ ret' = [ret EXCEPT ![t] =
                            [kind |-> "accepted",
                             items |-> Append(op[t].out, op[t].ev)]]
          ELSE /\ pc' = [pc EXCEPT ![t] =
                            IF op[t].via = "append" THEN "seq" ELSE "r_loop"]
               /\ op' = [op EXCEPT ![t].out = Append(@, op[t].ev)]
               /\ UNCHANGED ret
    /\ metrics' = [metrics EXCEPT !.total_publishes = @ + 1]
    /\ UNCHANGED <<cfg_vars, calls, pub_vars, list_vars, rpc_vars, store_vars,
                   hist_vars>>

(* ------------------------ Store::replace_topic ------------------------- *)
\* types.rs:152-154: `queue` = topics.entry(topic).or_insert_with(empty).
ReplaceTopicsEntry(t) ==
    /\ pc[t] = "r_entry"
    /\ ShardFree(op[t].topic)
    /\ shard_w' = HoldShard(shard_w, shard_of[op[t].topic], t)
    /\ topics' = IF op[t].topic \in DOMAIN topics THEN topics
                 ELSE Put(topics, op[t].topic, <<>>)
    /\ pc' = [pc EXCEPT ![t] = "r_clear"]
    /\ UNCHANGED <<cfg_vars, metric_vars, pub_vars, list_vars, rpc_vars, next_seq, meta, read_cache, op, ret, hist_vars>>

\* types.rs:155: queue.write().clear().
ReplaceClear(t) ==
    /\ pc[t] = "r_clear"
    /\ topics' = [topics EXCEPT ![op[t].topic] = <<>>]
    /\ pushed' = [pushed EXCEPT ![op[t].topic] = <<>>]
    /\ pc' = [pc EXCEPT ![t] = "r_meta"]
    /\ UNCHANGED <<cfg_vars, metric_vars, pub_vars, list_vars, rpc_vars, next_seq, meta, read_cache, shard_w, op, ret,
                   created, unchecked>>

\* types.rs:157-168: meta.insert(topic, fresh TopicMeta).
ReplaceMetaInsert(t) ==
    /\ pc[t] = "r_meta"
    /\ meta' = Put(meta, op[t].topic, [count_total |-> 0])
    /\ pc' = [pc EXCEPT ![t] = "r_loop"]
    /\ UNCHANGED <<cfg_vars, metric_vars, pub_vars, list_vars, rpc_vars, next_seq, topics, read_cache, shard_w, op, ret,
                   hist_vars>>

\* types.rs:169-174: `for p in items { out.push(self.publish(..)) }`, then
\* return `out`; `queue` is dropped on return.
ReplaceLoop(t) ==
    /\ pc[t] = "r_loop"
    /\ IF Len(op[t].out) = Len(op[t].items)
          THEN /\ shard_w' = HoldShard(shard_w, shard_of[op[t].topic], NoThread)
               /\ ret' = [ret EXCEPT ![t] =
                            [kind |-> "replaced", items |-> op[t].out]]
               /\ pc' = [pc EXCEPT ![t] = "idle"]
               /\ op' = [op EXCEPT ![t] = NoOp]
          ELSE /\ pc' = [pc EXCEPT ![t] = "seq"]
               /\ UNCHANGED <<shard_w, ret, op>>
    /\ UNCHANGED <<cfg_vars, metric_vars, pub_vars, list_vars, rpc_vars, store_vars, hist_vars>>

(* -------------------------- Store::get_recent -------------------------- *)
\* `n = limit.min(len); start = len - n; v[start..]`
Recent(v, limit) == LastN(v, Min(limit, Len(v)))

\* The buffer of a topic; no buffer reads as empty (types.rs:189-192).
Buffer(topic) == IF topic \in DOMAIN topics THEN topics[topic] ELSE <<>>

\* get_recent can return: a cache hit takes no guard of `topics`; a miss
\* takes the read guard of the shard (topics.get, types.rs:189).
CanGetRecent(topic) == topic \in DOMAIN read_cache \/ ShardFree(topic)

\* What get_recent returns (types.rs:177-197).
GetRecentItems(topic, limit) ==
    IF topic \in DOMAIN read_cache
       THEN Recent(read_cache[topic], limit)
       ELSE Recent(Buffer(topic), limit)

\* (CountRecentHitsOnly: a call that misses the cache is not counted.)
CountRecentHitsOnly(m, topic) ==
    IF topic \in DOMAIN read_cache THEN [m EXCEPT !.cache_hits = @ + 1] ELSE m

\* types.rs:179-185: get_recent counts a cache hit or a cache miss.
CountRecent(m, topic) ==
    IF topic \in DOMAIN read_cache THEN [m EXCEPT !.cache_hits = @ + 1]
    ELSE [m EXCEPT !.cache_misses = @ + 1]

RECURSIVE CountRecents(_, _)
\* the counters after get_recent on each topic of ts in turn
CountRecents(m, ts) ==
    IF ts = <<>> THEN m ELSE CountRecents(CountRecent(m, Head(ts)), Tail(ts))

\* The counters of the read operations (types.rs:180, 185, 212): get_recent
\* is called on each topic of ts, get_since `since` times.
StoreRead(ts, since) ==
    /\ metrics' = [CountRecents(metrics, ts) EXCEPT !.total_queries = @ + since]
    /\ calls' = [get_recent |-> calls.get_recent + Len(ts),
                 get_since |-> calls.get_since + since]

\* bus.get_recent (handlers.rs:85-153, 537-593) calling Store::get_recent.
\* A call that finds the shard guard taken waits (having counted its cache
\* miss); the worker is then not available for anything else, and the call
\* is taken as made when it gets the guard.
GetRecent(t, topic, limit) ==
    /\ pc[t] = "idle"
    /\ calls.get_recent < MaxGets
    /\ CanGetRecent(topic)
    /\ ret' = [ret EXCEPT ![t] =
                 [kind |-> "recent", items |-> GetRecentItems(topic, limit)]]
    /\ StoreRead(<<topic>>, 0)
    /\ UNCHANGED <<cfg_vars, pub_vars, list_vars, rpc_vars, store_vars, shard_w,
                   pc, op, hist_vars>>

(* ------------------------------ behaviours ----------------------------- *)
Next ==
    \/ \E t \in Workers, topic \in Topics, payload \in Payloads :
          \/ RpcPublishText(t, topic, payload)
          \/ RpcPublishMp(t, topic, payload)
    \/ \E topic \in Topics, payload \in Payloads : IngestDelta(topic, payload)
    \/ \E topic \in Topics, records \in SeqsUpTo(Payloads, MaxRecords),
          mode \in {"replace", "append"} : IngestSnapshot(topic, records, mode)
    \/ \E t \in Threads :
          \/ PublishSeq(t)
          \/ PublishMetaEntry(t)
          \/ PublishTopicsEntry(t)
          \/ PublishWrite(t)
          \/ PublishMetaUpdate(t)
          \/ ReplaceTopicsEntry(t)
          \/ ReplaceClear(t)
          \/ ReplaceMetaInsert(t)
          \/ ReplaceLoop(t)
    \/ \E t \in Workers, topic \in Topics, limit \in Limits :
          GetRecent(t, topic, limit)

Spec == Init /\ [][Next]_vars

(* ------------------------------- claims -------------------------------- *)
\* No publish or replace_topic call on `topic` is between its start and its
\* return.
NoWriteInProgress(topic) ==
    \A t \in Threads : pc[t] = "idle" \/ op[t].topic # topic

\* Every effect of the publish call of t on the store is in place: the event
\* is in its topic buffer and counted in the metadata.
Completed(t) == pc[t] = "update_read_cache"

\* The request names a topic the store does not hold while the store holds
\* topic_max topics.
AtCap(topic) ==
    /\ topic \notin DOMAIN topics
    /\ Cardinality(DOMAIN topics) = topic_max

\* C1: every event ever created in the store carries a seq >= 1 that no other
\* event created in the store carries, and no two events held in the topic
\* buffers share a seq.
C1_SeqUnique ==
    /\ \A i \in 1 .. Len(created) : created[i].seq >= 1
    /\ \A i, j \in 1 .. Len(created) : i # j => created[i].seq # created[j].seq
    /\ \A t1, t2 \in DOMAIN topics :
          \A i \in 1 .. Len(topics[t1]), j \in 1 .. Len(topics[t2]) :
             (t1 # t2 \/ i # j) => topics[t1][i].seq # topics[t2][j].seq

\* Two topics hold an event each, a third event has been created.
C1_Witness ==
    /\ Len(created) >= 3
    /\ \E t1, t2 \in DOMAIN topics :
          t1 # t2 /\ Len(topics[t1]) > 0 /\ Len(topics[t2]) > 0

\* C2 (as claimed): whenever a publish completes, every publish of the store
\* that completed earlier has a smaller seq.
C2_CompletionOrderIsSeqOrder ==
    [][\A u \in Threads :
          PublishMetaUpdate(u) =>
             \A t \in Threads \ {u} :
                Completed(t) => op[t].ev.seq < op[u].ev.seq]_vars

\* C2 (amended): whenever a publish allocates its seq, every publish of the
\* store that had completed before has a smaller seq.
C2_CompletedBeforeAllocated ==
    [][\A u \in Threads :
          PublishSeq(u) =>
             \A t \in Threads \ {u} :
                Completed(t) => op[t].ev.seq < op'[u].ev.seq]_vars

\* One publish has completed and another one holds a later seq.
C2_Witness ==
    \E t, u \in Threads :
       /\ t # u
       /\ Completed(t)
       /\ pc[u] = "meta_entry"
       /\ op[u].ev.seq > op[t].ev.seq

\* C3: every topic buffer holds at most maxlen events, and it holds the most
\* recently pushed ones: what an overflowing push removes is the front.
C3_BoundedFrontTrim ==
    \A topic \in DOMAIN topics :
       /\ Len(topics[topic]) <= maxlen
       /\ topics[topic] = LastN(pushed[topic], Min(maxlen, Len(pushed[topic])))

\* A push overflowed its buffer and an event was removed.
C3_Witness ==
    \E topic \in DOMAIN topics : Len(pushed[topic]) > Len(topics[topic])

\* C4: the events of every topic buffer are in strictly increasing seq order
\* from front to back.
C4_BufferSeqOrder ==
    \A topic \in DOMAIN topics :
       \A i, j \in 1 .. Len(topics[topic]) :
          i < j => topics[topic][i].seq < topics[topic][j].seq

\* A buffer holds an event while another thread is publishing an event of a
\* smaller seq to the same topic.
C4_Witness ==
    \E topic \in DOMAIN topics, u \in Threads :
       /\ Len(topics[topic]) > 0
       /\ pc[u] = "topics_entry"
       /\ op[u].topic = topic
       /\ op[u].ev.seq < topics[topic][1].seq

\* C5 (as claimed): a bus.publish request, on either encoding, that names a
\* new topic while the store holds topic_max topics is answered "too many
\* topics" and changes nothing: it does not enter Store::publish.
C5_CapRejectsOnBothPaths ==
    [][\A t \in Workers, topic \in Topics, payload \in Payloads :
          (RpcPublishText(t, topic, payload) \/ RpcPublishMp(t, topic, payload))
             /\ AtCap(topic)
          => /\ ret'[t].kind = "too_many_topics"
             /\ UNCHANGED <<store_vars, pc, op>>]_vars

\* C6 (as claimed): as long as every publish was admitted by the cap check,
\* the store never holds more than topic_max topics.
C6_TopicCapHolds ==
    ~unchecked => Cardinality(DOMAIN topics) <= topic_max

\* The thread waits for a shard guard that it owns itself.
SelfBlocked(t) ==
    /\ pc[t] \in {"topics_entry", "r_entry", "update_read_cache"}
    /\ shard_w[shard_of[op[t].topic]] = t

\* C7 (as claimed): no publish or replace_topic call blocks forever on a lock
\* of the store: a call that waits for the guard of a shard does not wait for
\* a guard it owns itself.
C7_NoCallBlocksOnItself == \A t \in Threads : ~SelfBlocked(t)

\* No call that can still take a step owns the guard of the shard of `topic`.
NoLiveGuard(topic) ==
    ShardFree(topic) \/ SelfBlocked(shard_w[shard_of[topic]])

\* C8 (as claimed): whenever no write to a topic is in progress and no
\* running call is inside the shard of the topic, get_recent on the topic
\* returns, and returns the last min(limit, size) events of the buffer.
C8_GetRecentReflectsBuffer ==
    \A topic \in Topics, limit \in Limits :
       NoWriteInProgress(topic) /\ NoLiveGuard(topic) =>
          /\ CanGetRecent(topic)
          /\ GetRecentItems(topic, limit) = Recent(Buffer(topic), limit)

\* A replace_topic call on `topic` has cleared the buffer and not returned.
InReplaceWindow(topic) ==
    \E t \in Threads :
       /\ op[t].via = "replace"
       /\ op[t].topic = topic
       /\ pc[t] \notin {"idle", "r_entry", "r_clear"}

\* C9: between the clear of a replace_topic call and its return no get_recent
\* reads the topic and no publish of another thread pushes to it.
C9_ReplaceIsolated ==
    [][/\ \A u \in Workers, topic \in Topics, limit \in Limits :
             GetRecent(u, topic, limit) => ~InReplaceWindow(topic)
       /\ \A u \in Threads :
             PublishWrite(u) /\ op[u].via # "replace"
                => ~InReplaceWindow(op[u].topic)]_vars

\* A replace_topic call with records has cleared the buffer while another
\* thread is publishing to the same topic.
C9_Witness ==
    \E t, u \in Threads :
       /\ op[t].via = "replace"
       /\ Len(op[t].items) > 0
       /\ InReplaceWindow(op[t].topic)
       /\ pc[u] = "topics_entry"
       /\ op[u].via # "replace"
       /\ op[u].topic = op[t].topic

\* What C10 says of a replace_topic call of t that returns with ret'.
ReplacePost(t) ==
    LET recs == op[t].items
        out == ret'[t].items
        topic == op[t].topic
    IN  /\ Len(out) = Len(recs)
        /\ \A i \in 1 .. Len(out) : out[i].payload = recs[i]
        /\ \A i, j \in 1 .. Len(out) : i < j => out[i].seq < out[j].seq
        /\ topics'[topic] = LastN(out, Min(Len(recs), maxlen))
        /\ meta'[topic].count_total = Len(recs)

\* C10 (as claimed): a replace_topic call returns (it does not wait for a
\* guard it owns), and on return the buffer holds the events of the last
\* min(|records|, maxlen) records in record order, the metadata counts
\* |records| and the returned vector has one event per record.
C10_ReplaceTopicResult ==
    [][\A t \in Threads :
          /\ (ReplaceLoop(t) /\ pc'[t] = "idle") => ReplacePost(t)
          /\ ~ /\ op'[t].via = "replace"
               /\ pc'[t] = "topics_entry"
               /\ shard_w'[shard_of[op'[t].topic]] = t]_vars

(* ------------------------------ event lists ---------------------------- *)
\* the events of a list
Events(q) == {q[i] : i \in 1 .. Len(q)}

\* Vec::truncate(n)
Truncate(q, n) == IF Len(q) > n THEN SubSeq(q, 1, n) ELSE q

RECURSIVE Filter(_, _)
\* the events of q that are in the set `keep`, in the order of q
Filter(q, keep) ==
    IF q = <<>> THEN <<>>
    ELSE IF Head(q) \in keep THEN <<Head(q)>> \o Filter(Tail(q), keep)
    ELSE Filter(Tail(q), keep)

RECURSIVE InsertStable(_, _, _)
\* x put into the sorted list s behind every element it is not less than
InsertStable(s, x, lt) ==
    IF s = <<>> THEN <<x>>
    ELSE IF <<x, Head(s)>> \in lt THEN <<x>> \o s
    ELSE <<Head(s)>> \o InsertStable(Tail(s), x, lt)

\* (SortSkipped: the list is left as it is.)
SortSkipped(q, lt) == q

RECURSIVE StableSort(_, _)
\* slice::sort_by, a stable sort; lt is the set of pairs <<a, b>> for which
\* the comparator says Less.
StableSort(q, lt) ==
    IF q = <<>> THEN <<>>
    ELSE InsertStable(StableSort(SubSeq(q, 1, Len(q) - 1), lt), q[Len(q)], lt)

\* `|a, b| b.seq.cmp(&a.seq)`
SeqDesc(S) == {p \in S \X S : p[1].seq > p[2].seq}

\* `sort_by_key(|ev| ev.seq)`
SeqAsc(S) == {p \in S \X S : p[1].seq < p[2].seq}

\* the orders in which DashMap::iter can visit the keys of `topics`
IterOrders ==
    {o \in SeqsUpTo(DOMAIN topics, Cardinality(DOMAIN topics)) :
        Len(o) = Cardinality(DOMAIN topics) /\ Events(o) = DOMAIN topics}

RECURSIVE Scan(_)
\* the buffers of the topics of `order`, one after the other
Scan(order) ==
    IF order = <<>> THEN <<>> ELSE Buffer(Head(order)) \o Scan(Tail(order))

\* every event held in a buffer
Buffered == UNION {Events(topics[t]) : t \in DOMAIN topics}

(* --------------------------- Store::get_since -------------------------- *)
\* types.rs:214-217: a named topic, or every topic for None, "" and "*"
\* (None is written "").
TopicsToScan(topic, order) ==
    IF topic # "" /\ topic # "*" THEN <<topic>> ELSE order

\* types.rs:211-240
GetSince(topic, after_seq, limit, order) ==
    LET all == Scan(TopicsToScan(topic, order))
        snapshots == Filter(all, {ev \in Events(all) : ev.seq > after_seq})
    IN  Truncate(StableSort(snapshots, SeqAsc(Events(snapshots))), limit)

(* ---------------------------- result items ----------------------------- *)
\* rmpv::ext::to_value: the MessagePack value of a JSON value (types.rs:99-100)
ToMp(v) == [mp |-> v]

\* (EventToMpNoIndex: the light item also loses its index.)
EventToMpNoIndex(ev, light) ==
    IF light
       THEN [seq |-> ev.seq, ts |-> ev.ts, store |-> ev.store,
             topic |-> ev.topic]
       ELSE [seq |-> ev.seq, ts |-> ev.ts, store |-> ev.store,
             topic |-> ev.topic, payload |-> ToMp(ev.payload),
             index |-> ToMp(ev.index)]

\* handlers.rs:446-456: one item of events_to_mp_vec.
EventToMp(ev, light) ==
    IF light
       THEN [seq |-> ev.seq, ts |-> ev.ts, store |-> ev.store,
             topic |-> ev.topic, index |-> ToMp(ev.index)]
       ELSE [seq |-> ev.seq, ts |-> ev.ts, store |-> ev.store,
             topic |-> ev.topic, payload |-> ToMp(ev.payload),
             index |-> ToMp(ev.index)]

\* handlers.rs:444-459
EventsToMpVec(items, light) ==
    [i \in 1 .. Len(items) |-> EventToMp(items[i], light)]

\* handlers.rs:569-591: the items of the text path of bus.get_recent.
EventsToJson(items, light) ==
    [i \in 1 .. Len(items) |->
        IF light
           THEN [seq |-> items[i].seq, ts |-> items[i].ts,
                 store |-> items[i].store, topic |-> items[i].topic,
                 index |-> items[i].index]
           ELSE [seq |-> items[i].seq, ts |-> items[i].ts,
                 store |-> items[i].store, topic |-> items[i].topic,
                 payload |-> items[i].payload, index |-> items[i].index]]

(* --------------------------- request arguments ------------------------- *)
\* `limit` defaults (handlers.rs:112, 241, 249; query.rs:451, 461)
DefaultLimit == 200
\* NEKO_MESSAGE_PLANE_GET_RECENT_MAX_LIMIT (config.rs:36-37)
GetRecentMaxLimit == 1000
\* the clamp of bus.query (handlers.rs:251-256)
QueryMaxLimit == 10000
\* an absent `limit`
NoLimit == -1

\* A numeric argument: absent ("none"), a number ("num"), a string that
\* parses as the number v ("str"), or a string that does not parse ("bad").
Num(given, v) == [given |-> given, v |-> v]
NoNum == Num("none", 0)

\* `v.as_i64().or_else(|| str.parse().ok())` with accept_str, `v.as_i64()`
\* without.
ParsedNum(a, accept_str) ==
    IF a.given = "num" \/ (accept_str /\ a.given = "str")
       THEN [some |-> TRUE, v |-> a.v]
       ELSE [some |-> FALSE, v |-> 0]

\* The filter and addressing arguments of bus.query and of a `get` leaf.
Args(topic, limit, plugin_id, kind, priority_min, since_ts, until_ts) ==
    [topic |-> topic, limit |-> limit, plugin_id |-> plugin_id,
     source |-> "", kind |-> kind, type |-> "",
     priority_min |-> priority_min, since_ts |-> since_ts,
     until_ts |-> until_ts]

\* (MatchesNoUntil: the until_ts filter is not applied.)
MatchesNoUntil(ev, f) ==
    /\ f.plugin_id # "" => ev.index.plugin_id = f.plugin_id
    /\ f.source # "" => ev.index.source = f.source
    /\ f.kind # "" => ev.index.kind = f.kind
    /\ f.type # "" => ev.index.type = f.type
    /\ f.pmin.some => ev.index.priority >= f.pmin.v
    /\ f.since.some => ev.index.timestamp >= f.since.v

\* handlers.rs:305-348, query.rs:506-540: the filter predicates on the index
\* of an event; f holds the filters that are in force.
Matches(ev, f) ==
    /\ f.plugin_id # "" => ev.index.plugin_id = f.plugin_id
    /\ f.source # "" => ev.index.source = f.source
    /\ f.kind # "" => ev.index.kind = f.kind
    /\ f.type # "" => ev.index.type = f.type
    /\ f.pmin.some => ev.index.priority >= f.pmin.v
    /\ f.since.some => ev.index.timestamp >= f.since.v
    /\ f.until.some => ev.index.timestamp <= f.until.v

(* ------------------------------ bus.query ------------------------------ *)
\* handlers.rs:268-283: the filters bus.query reads from its arguments.
QueryFilters(a) ==
    [plugin_id |-> a.plugin_id, source |-> a.source, kind |-> a.kind,
     type |-> a.type,
     pmin |-> ParsedNum(a.priority_min, TRUE),
     since |-> ParsedNum(a.since_ts, TRUE),
     until |-> ParsedNum(a.until_ts, TRUE)]

\* handlers.rs:239-256: `limit` is read with as_u64, so a limit that is
\* absent (NoLimit) or negative reads as the default; then 0 is replaced by
\* the default (outside strict mode) and the result is clamped.
QueryLimit(a) ==
    LET l0 == IF a.limit = NoLimit THEN DefaultLimit ELSE a.limit
        l1 == IF l0 <= 0 THEN DefaultLimit ELSE l0
    IN  Min(l1, QueryMaxLimit)

\* handlers.rs:242-245, 258-261: the requests refused in strict mode.
QueryBadArgs(a, mode) ==
    mode = "strict" /\ (a.limit = 0 \/ a.topic = "")

\* handlers.rs:285-357: the events bus.query answers with.
QueryOut(a, order) ==
    LET snapshots == IF a.topic = "" \/ a.topic = "*" THEN Scan(order)
                     ELSE Buffer(a.topic)
        f == QueryFilters(a)
        out == Filter(snapshots, {ev \in Events(snapshots) : Matches(ev, f)})
    IN  Truncate(StableSort(out, SeqDesc(Events(out))), QueryLimit(a))

\* handle_query_mp (handlers.rs:227-369)
QueryResp(a, light, mode, order) ==
    IF QueryBadArgs(a, mode)
       THEN [kind |-> "BAD_ARGS", items |-> <<>>]
       ELSE [kind |-> "query",
             items |-> EventsToMpVec(QueryOut(a, order), light)]

(* ---------------------------- bus.get_recent --------------------------- *)
\* handlers.rs:112-136: `limit` of bus.get_recent.
GetRecentLimit(limit) ==
    Min(IF limit = NoLimit THEN DefaultLimit ELSE limit, GetRecentMaxLimit)

\* handle_get_recent_mp (handlers.rs:85-153)
GetRecentResp(topic, limit, light) ==
    [kind |-> "recent",
     items |-> EventsToMpVec(GetRecentItems(topic, GetRecentLimit(limit)),
                             light)]

\* handle_rpc, op "bus.get_recent" (handlers.rs:537-593)
GetRecentRespText(topic, limit, light) ==
    [kind |-> "recent",
     items |-> EventsToJson(GetRecentItems(topic, GetRecentLimit(limit)),
                            light)]

(* ----------------------------- sort keys ------------------------------- *)
\* The bytes of the strings of the model.
Code(str) ==
    CASE str = "" -> <<>>
      [] str = "1" -> <<49>>
      [] str = "A" -> <<65>>
      [] str = "B" -> <<66>>
      [] str = "k" -> <<107>>
      [] str = "x" -> <<120>>
      [] str = "y" -> <<121>>
      [] str = "t1" -> <<116, 49>>
      [] str = "t2" -> <<116, 50>>
      [] str = "messages" -> <<109, 101, 115, 115, 97, 103, 101, 115>>

RECURSIVE Digits(_)
\* to_string of a number n >= 0, as bytes
Digits(n) ==
    IF n < 10 THEN <<48 + n>> ELSE Digits(n \div 10) \o <<48 + (n % 10)>>

RECURSIVE LexLess(_, _)
\* a < b for byte strings and for vectors of sort keys (Ord of String, Vec)
LexLess(a, b) ==
    IF b = <<>> THEN FALSE
    ELSE IF a = <<>> THEN TRUE
    ELSE IF Head(a) = Head(b) THEN LexLess(Tail(a), Tail(b))
    ELSE Head(a) < Head(b)

\* query.rs:21-39 and 41-49: cmp_sort_value(field_value(ev, field) or Null),
\* the pair (tag, string) written as the byte string <<tag>> \o string.
\* The index holds the seven keys of extract_index, a null one included.
SortValue(ev, field) ==
    CASE field \in {"plugin_id", "source", "kind", "type", "id"} ->
            IF ev.index[field] = "" THEN <<2>> ELSE <<1>> \o Code(ev.index[field])
      [] field \in {"priority", "timestamp"} -> <<0>> \o Digits(ev.index[field])
      [] field \in {"seq", "ts"} -> <<0>> \o Digits(ev[field])
      [] field \in {"store", "topic"} -> <<1>> \o Code(ev[field])
      [] OTHER -> <<2>>

\* The vector of sort keys of an event; between the keys a separator below
\* every byte and tag, so that the vectors compare key by key.
RECURSIVE SortKey(_, _)
SortKey(ev, by) ==
    IF by = <<>> THEN <<>>
    ELSE SortValue(ev, Head(by)) \o <<-1>> \o SortKey(ev, Tail(by))

\* (SortLtFlipped: reverse is done by reversing the ascending order.)
SortLtFlipped(S, by, reverse) ==
    {p \in S \X S :
        IF reverse THEN ~LexLess(SortKey(p[1], by), SortKey(p[2], by))
        ELSE LexLess(SortKey(p[1], by), SortKey(p[2], by))}

\* query.rs:113-129: the comparator of the unary sort.
SortLt(S, by, reverse) ==
    {p \in S \X S :
        IF reverse THEN LexLess(SortKey(p[2], by), SortKey(p[1], by))
        ELSE LexLess(SortKey(p[1], by), SortKey(p[2], by))}

(* ---------------------------- plan evaluator --------------------------- *)
Get(p) == [kind |-> "get", p |-> p]
Unary(o, params, child) ==
    [kind |-> "unary", op |-> o, params |-> params, child |-> child]
Binary(o, left, right) ==
    [kind |-> "binary", op |-> o, left |-> left, right |-> right]

\* query.rs:465-482: the filters a `get` leaf reads from its params.
ReplayFilters(a) ==
    [plugin_id |-> a.plugin_id, source |-> a.source, kind |-> a.kind,
     type |-> a.type,
     pmin |-> ParsedNum(a.priority_min, FALSE),
     since |-> ParsedNum(a.since_ts, FALSE),
     until |-> [some |-> FALSE, v |-> 0]]

\* query.rs:447-462
GetLimit(a) ==
    LET l0 == IF a.limit = NoLimit THEN DefaultLimit ELSE a.limit
        l1 == Min(l0, GetRecentMaxLimit)
    IN  IF l1 <= 0 THEN DefaultLimit ELSE l1

\* query.rs:440-548: the `get` leaf.
EvalGet(a) ==
    LET f == ReplayFilters(a)
    IN  IF /\ f.plugin_id = "" /\ f.source = "" /\ f.kind = "" /\ f.type = ""
           /\ ~f.pmin.some /\ ~f.since.some
           THEN GetRecentItems(a.topic, GetLimit(a))
           ELSE LET snapshots == Buffer(a.topic)
                    out == Filter(snapshots,
                                  {ev \in Events(snapshots) : Matches(ev, f)})
                IN  Truncate(StableSort(out, SeqDesc(Events(out))),
                             GetLimit(a))

\* query.rs:83-93: unary limit.
Limit(items, n) == IF n <= 0 THEN <<>> ELSE Truncate(items, n)

\* query.rs:95-131: unary sort.
Sort(items, by, reverse) == StableSort(items, SortLt(Events(items), by, reverse))

\* (DedupeKeyUntagged: the key is the bare string, without the "id" or
\* "seq" tag.)
DedupeKeyUntagged(ev) ==
    IF ev.index.id # "" THEN [tag |-> "", s |-> Code(ev.index.id)]
    ELSE [tag |-> "", s |-> Digits(ev.seq)]

\* query.rs:7-19
DedupeKey(ev) ==
    IF ev.index.id # "" THEN [tag |-> "id", s |-> Code(ev.index.id)]
    ELSE [tag |-> "seq", s |-> Digits(ev.seq)]

Keys(q) == {DedupeKey(q[i]) : i \in 1 .. Len(q)}

RECURSIVE DedupeSkip(_, _, _)
\* The loop of query.rs:379-386, 394-404, 412-422: keep the first event of
\* each key that is not in `seen` and that `keep` admits.
DedupeSkip(q, seen, keep) ==
    IF q = <<>> THEN <<>>
    ELSE LET k == DedupeKey(Head(q))
         IN  IF k \in seen \/ k \notin keep
                THEN DedupeSkip(Tail(q), seen, keep)
                ELSE <<Head(q)>> \o DedupeSkip(Tail(q), seen \cup {k}, keep)

\* (MergeNoDedupe: merge concatenates.)
MergeNoDedupe(X, Y) == StableSort(X \o Y, SeqDesc(Events(X \o Y)))

\* query.rs:376-389
Merge(X, Y) ==
    LET merged == DedupeSkip(X \o Y, {}, Keys(X \o Y))
    IN  StableSort(merged, SeqDesc(Events(merged)))

\* query.rs:391-407
Intersection(X, Y) ==
    LET kept == DedupeSkip(X, {}, Keys(Y))
    IN  StableSort(kept, SeqDesc(Events(kept)))

\* a difference that keeps the events of X whose key is in Y
DifferenceKeepingShared(X, Y) ==
    LET kept == DedupeSkip(X, {}, Keys(X) \cap Keys(Y))
    IN  StableSort(kept, SeqDesc(Events(kept)))

\* query.rs:409-425
Difference(X, Y) ==
    LET kept == DedupeSkip(X, {}, Keys(X) \ Keys(Y))
    IN  StableSort(kept, SeqDesc(Events(kept)))

\* query.rs:369-428
ApplyBinaryOp(X, Y, o) ==
    CASE o = "merge" -> Merge(X, Y)
      [] o = "intersection" -> Intersection(X, Y)
      [] o = "difference" -> Difference(X, Y)

(* ------------------------------ where_regex ---------------------------- *)
\* `pattern.len() > 128` (query.rs:55)
RegexPatternMax == 128
\* `&s[..1024]` (query.rs:68)
RegexTextMax == 1024

\* A string value of 1023 bytes "A" followed by one character of two bytes.
LongText == "long_text"

\* A text is a list of runs: n characters `ch`, each encoded in w bytes.
Run(ch, w, n) == [ch |-> ch, w |-> w, n |-> n]

\* The text matched for a field value: the string itself, and the rendering
\* "null" of a value that is null (query.rs:58-66).
Text(str) ==
    CASE str = LongText -> <<Run(65, 1, RegexTextMax - 1), Run(233, 2, 1)>>
      [] str = "" -> <<Run(110, 1, 1), Run(117, 1, 1), Run(108, 1, 2)>>
      [] OTHER -> [i \in 1 .. Len(Code(str)) |-> Run(Code(str)[i], 1, 1)]

RECURSIVE ByteLen(_)
\* str::len: the length in bytes
ByteLen(text) ==
    IF text = <<>> THEN 0
    ELSE Head(text).w * Head(text).n + ByteLen(Tail(text))

RECURSIVE IsCharBoundary(_, _)
\* str::is_char_boundary(k), for k <= len
IsCharBoundary(text, k) ==
    IF k = 0 THEN TRUE
    ELSE IF text = <<>> THEN FALSE
    ELSE LET r == Head(text)
         IN  IF k >= r.w * r.n THEN IsCharBoundary(Tail(text), k - r.w * r.n)
             ELSE k % r.w = 0

\* query.rs:68: `&s[..1024]` of a string longer than 1024 bytes panics when
\* byte 1024 lies inside a character.
SlicePanics(text) ==
    ByteLen(text) > RegexTextMax /\ ~IsCharBoundary(text, RegexTextMax)

RECURSIVE Prefix(_, _)
\* `&s[..k]` with k a character boundary
Prefix(text, k) ==
    IF k = 0 \/ text = <<>> THEN <<>>
    ELSE LET r == Head(text)
         IN  IF k >= r.w * r.n
                THEN <<r>> \o Prefix(Tail(text), k - r.w * r.n)
                ELSE <<Run(r.ch, r.w, k \div r.w)>>

\* The patterns of the model: "A" (a text with an A in it), "^A*$" (a text
\* of nothing but A, the empty text included), "(" (not a regex), a valid
\* pattern of RegexPatternMax + 1 ASCII characters, and a valid pattern of
\* RegexPatternMax - 1 characters of two bytes each.
LongPattern == "long_pattern"
WidePattern == "wide_pattern"

\* str::len of a pattern: the length in bytes
PatternBytes(pattern) ==
    CASE pattern = "A" -> 1
      [] pattern = "^A*$" -> 4
      [] pattern = "(" -> 1
      [] pattern = LongPattern -> RegexPatternMax + 1
      [] pattern = WidePattern -> 2 * (RegexPatternMax - 1)

\* Regex::new(pattern) is Ok
ValidPattern(pattern) == pattern # "("

\* Regex::is_match, for the two patterns short enough to be compiled
IsMatch(pattern, text) ==
    CASE pattern = "A" ->
            \E i \in 1 .. Len(text) : text[i].ch = 65 /\ text[i].n > 0
      [] pattern = "^A*$" ->
            \A i \in 1 .. Len(text) : text[i].ch = 65 \/ text[i].n = 0

\* maybe_match_regex (query.rs:51-76) on a value that is present and whose
\* slice does not panic: "true", "false" or "none".
MaybeMatchRegex(pattern, text, strict) ==
    IF pattern = "" THEN "none"
    ELSE IF PatternBytes(pattern) > RegexPatternMax
            THEN IF strict THEN "false" ELSE "none"
    ELSE IF ~ValidPattern(pattern) THEN IF strict THEN "false" ELSE "none"
    ELSE LET t == IF ByteLen(text) > RegexTextMax
                     THEN Prefix(text, RegexTextMax) ELSE text
         IN  IF IsMatch(pattern, t) THEN "true" ELSE "false"

\* field_value(ev, field) for a string field of the index (query.rs:21-26)
FieldText(ev, field) == Text(ev.index[field])

\* where_regex (query.rs:329-364)
WhereRegex(items, params) ==
    IF params.field = "" \/ params.pattern = "" THEN items
    ELSE LET ok_pat == MaybeMatchRegex(params.pattern, <<>>, params.strict)
         IN  IF ok_pat = "false"
                THEN IF params.strict THEN <<>> ELSE items
             ELSE IF ok_pat = "none" THEN items
             ELSE Filter(items,
                         {ev \in Events(items) :
                             MaybeMatchRegex(params.pattern,
                                             FieldText(ev, params.field),
                                             params.strict) = "true"})

\* where_regex reaches the slice of query.rs:68 with a text it panics on:
\* the pattern has passed the validation of query.rs:348-354, which is a
\* match of the empty text, and some event has such a text in the field.
WhereRegexPanics(items, params) ==
    /\ params.field # ""
    /\ params.pattern # ""
    /\ MaybeMatchRegex(params.pattern, <<>>, params.strict) = "true"
    /\ \E ev \in Events(items) : SlicePanics(FieldText(ev, params.field))

\* query.rs:78-131, 329-364; the other unary operations are not modelled.
ApplyUnaryOp(items, o, params) ==
    CASE o = "limit" -> Limit(items, params.n)
      [] o = "sort" -> Sort(items, params.by, params.reverse)
      [] o = "where_regex" -> WhereRegex(items, params)

RECURSIVE EvalPlan(_)
\* query.rs:430-564, for the plans that evaluate to Some(items).
EvalPlan(node) ==
    CASE node.kind = "get" -> EvalGet(node.p)
      [] node.kind = "unary" ->
            ApplyUnaryOp(EvalPlan(node.child), node.op, node.params)
      [] node.kind = "binary" ->
            ApplyBinaryOp(EvalPlan(node.left), EvalPlan(node.right), node.op)

\* a child, left or right key that is absent
NoNode == [kind |-> "absent"]

\* the results of eval_plan: None, Some(items), and the unwinding of a panic
NoItems == [tag |-> "none", items |-> <<>>]
SomeItems(items) == [tag |-> "some", items |-> items]
Unwound == [tag |-> "panic", items |-> <<>>]

\* query.rs:257-276: where_eq on a string field of the index
WhereEq(items, params) ==
    IF params.field = "" THEN items
    ELSE Filter(items,
                {ev \in Events(items) : ev.index[params.field] = params.value})

\* query.rs:83, 95, 133, 257, 278, 305, 329: the operations apply_unary_op
\* has a branch for
UnaryOps ==
    {"limit", "sort", "filter", "where_eq", "where_in", "where_contains",
     "where_regex"}

\* query.rs:370: the operations apply_binary_op has a branch for
BinaryOps == {"merge", "intersection", "difference"}

\* apply_unary_op (query.rs:78-367) as an Option; the branches of filter,
\* where_in and where_contains are not modelled.
ApplyUnaryOpt(items, o, params) ==
    CASE o \notin UnaryOps -> NoItems
      [] o \in {"limit", "sort"} -> SomeItems(ApplyUnaryOp(items, o, params))
      [] o = "where_eq" -> SomeItems(WhereEq(items, params))
      [] o = "where_regex" ->
            IF WhereRegexPanics(items, params) THEN Unwound
            ELSE SomeItems(WhereRegex(items, params))

RECURSIVE EvalPlanOpt(_)
\* eval_plan (query.rs:430-564): `?` returns None at once, a panic unwinds
\* through every caller.
EvalPlanOpt(node) ==
    IF node.kind = "get" THEN SomeItems(EvalGet(node.p))
    ELSE IF node.kind = "unary"
       THEN IF node.child = NoNode THEN NoItems
            ELSE LET base == EvalPlanOpt(node.child)
                 IN  IF base.tag # "some" THEN base
                     ELSE ApplyUnaryOpt(base.items, node.op, node.params)
    ELSE IF node.kind = "binary"
       THEN IF node.left = NoNode THEN NoItems
            ELSE LET left == EvalPlanOpt(node.left)
                 IN  IF left.tag # "some" THEN left
                     ELSE IF node.right = NoNode THEN NoItems
                     ELSE LET right == EvalPlanOpt(node.right)
                          IN  IF right.tag # "some" THEN right
                              ELSE IF node.op \notin BinaryOps THEN NoItems
                              ELSE SomeItems(ApplyBinaryOp(left.items,
                                                           right.items,
                                                           node.op))
    ELSE NoItems

\* query.rs:484-492: the topic the `get` leaf calls get_recent with; a leaf
\* with filters reads the buffer itself.
LeafGets(a) ==
    LET f == ReplayFilters(a)
    IN  IF /\ f.plugin_id = "" /\ f.source = "" /\ f.kind = "" /\ f.type = ""
           /\ ~f.pmin.some /\ ~f.since.some
           THEN <<a.topic>>
           ELSE <<>>

RECURSIVE PlanGets(_)
\* The topics get_recent is called with while eval_plan evaluates the plan,
\* in order: the right side of a binary node is not evaluated when the left
\* side gave None or panicked.
PlanGets(node) ==
    IF node.kind = "get" THEN LeafGets(node.p)
    ELSE IF node.kind = "unary"
       THEN IF node.child = NoNode THEN <<>> ELSE PlanGets(node.child)
    ELSE IF node.kind = "binary"
       THEN IF node.left = NoNode THEN <<>>
            ELSE PlanGets(node.left)
                 \o (IF EvalPlanOpt(node.left).tag # "some"
                        \/ node.right = NoNode
                        THEN <<>>
                        ELSE PlanGets(node.right))
    ELSE <<>>

\* handle_replay_mp (handlers.rs:155-225)
ReplayResp(plan, light) ==
    [kind |-> "replay",
     items |-> EventsToMpVec(Truncate(EvalPlan(plan), GetRecentMaxLimit),
                             light)]

(* ------------------- read operations on store contents ----------------- *)
\* The payloads of the events the read operations are applied to.
QPayloads ==
    <<Payload("A", "", 5, NoTs, ""),
      Payload("A", "k", 9, 1, "x"),
      Payload("B", "k", 5, 5, "x")>>

\* The payload of the event of seq i, the payloads taken in rotation from r.
QPayloadAt(i, r) == QPayloads[((i + r) % Len(QPayloads)) + 1]

\* The buffer of topic t when the event of seq i went to topic f[i];
\* f[i] = "" for an event that was trimmed or replaced.
QBuffer(f, r, t) ==
    LET all == [i \in 1 .. MaxQSeq |->
                   MkEvent(i, NowTs, StoreName, f[i], QPayloadAt(i, r))]
    IN  Filter(all, {e \in Events(all) : e.topic = t})

\* The worker that serves the read requests.
QWorker == "w1"

\* The store contents the read operations are applied to: seqs 1 .. MaxQSeq,
\* each in at most one buffer, every buffer in seq order (C1, C3, C4), the
\* read cache empty (it is never filled, see UpdateReadCache), and no call in
\* progress, so that no shard guard is held.  The read operations are
\* functions of these contents; under Spec a read of a topic that was
\* published to finds the shard guard taken (C7).
QInit ==
    /\ maxlen = MaxQSeq
    /\ topic_max = Cardinality(Topics)
    /\ stores = MpStateNew(maxlen, topic_max)
    /\ shard_of = [t \in Topics |-> t]
    /\ next_seq = MaxQSeq + 1
    /\ \E f \in [1 .. MaxQSeq -> Topics \cup {""}], r \in 1 .. Len(QPayloads) :
          /\ topics = [t \in {f[i] : i \in 1 .. MaxQSeq} \ {""} |->
                         QBuffer(f, r, t)]
          /\ pushed = [t \in Topics |-> QBuffer(f, r, t)]
    /\ meta = [t \in DOMAIN topics |-> [count_total |-> Len(topics[t])]]
    /\ read_cache = EmptyMap
    /\ shard_w = [s \in Shards |-> NoThread]
    /\ pc = [t \in Threads |-> "idle"]
    /\ op = [t \in Threads |-> NoOp]
    /\ ret = [t \in Threads |-> NoRet]
    /\ created = <<>>
    /\ unchecked = FALSE
    /\ pub_enabled = TRUE
    /\ pub_rx = <<>>
    /\ pub_sent = <<>>
    /\ acked = <<>>
    /\ xs = <<>>
    /\ ys = <<>>
    /\ metrics = MetricsAfter(next_seq - 1)
    /\ calls = NoCalls
    /\ RpcInit

\* Worker t answers the request `req` with `resp`, having called get_recent
\* on the topics ts and get_since `since` times; a run holds one request of
\* each worker.
AnswerReading(t, req, resp, ts, since) ==
    /\ pc[t] = "idle"
    /\ ret[t] = NoRet
    /\ ret' = [ret EXCEPT ![t] =
                 [kind |-> resp.kind, items |-> resp.items, req |-> req]]
    /\ StoreRead(ts, since)
    /\ UNCHANGED <<cfg_vars, pub_vars, list_vars, rpc_vars, store_vars, shard_w,
                   pc, op, hist_vars>>

\* an answer made without a call of get_recent or get_since
Answer(t, req, resp) == AnswerReading(t, req, resp, <<>>, 0)

\* Store::get_since
QGetSince(t, topic, after_seq, limit) ==
    \E order \in IterOrders :
       AnswerReading(t,
                     [topic |-> topic, after_seq |-> after_seq,
                      limit |-> limit],
                     [kind |-> "since",
                      items |-> GetSince(topic, after_seq, limit, order)],
                     <<>>, 1)

\* bus.get_recent, binary and text path
QGetRecentMp(t, topic, limit, light) ==
    /\ CanGetRecent(topic)
    /\ AnswerReading(t, [topic |-> topic, limit |-> limit, light |-> light,
                         path |-> "mp"],
                     GetRecentResp(topic, limit, light), <<topic>>, 0)

QGetRecentText(t, topic, limit, light) ==
    /\ CanGetRecent(topic)
    /\ AnswerReading(t, [topic |-> topic, limit |-> limit, light |-> light,
                         path |-> "text"],
                     GetRecentRespText(topic, limit, light), <<topic>>, 0)

\* bus.query
QQuery(t, a, light, mode) ==
    \E order \in IterOrders :
       Answer(t, [args |-> a, light |-> light, mode |-> mode],
              QueryResp(a, light, mode, order))

\* bus.replay
QReplay(t, plan, light) ==
    AnswerReading(t, [plan |-> plan, light |-> light], ReplayResp(plan, light),
                  PlanGets(plan), 0)

\* the arguments of the requests
QTopicArgs == {"t1", "", "*"}
QLimits == {NoLimit} \cup (0 .. MaxQSeq - 1)

\* the filters of a request: plugin_id, priority_min, since_ts, until_ts
QFilters ==
    {<<"", NoNum, NoNum, NoNum>>,
     <<"A", NoNum, NoNum, NoNum>>,
     <<"", Num("num", 9), NoNum, NoNum>>,
     <<"", Num("str", 9), NoNum, NoNum>>,
     <<"", Num("bad", 0), NoNum, NoNum>>,
     <<"", NoNum, Num("num", 3), NoNum>>,
     <<"", NoNum, Num("str", 3), NoNum>>,
     <<"", NoNum, NoNum, Num("num", 3)>>,
     <<"A", Num("num", 9), NoNum, NoNum>>,
     <<"", NoNum, Num("num", 3), Num("num", 3)>>}

QArgs ==
    {Args(topic, limit, f[1], "", f[2], f[3], f[4]) :
        topic \in QTopicArgs, limit \in QLimits, f \in QFilters}

\* `get` leaves on a named topic
QLeafArgs == {a \in QArgs : a.topic \in Topics /\ a.limit # 0}
QPlainArgs ==
    {Args(topic, limit, "", "", NoNum, NoNum, NoNum) :
        topic \in Topics, limit \in {NoLimit, 1}}

\* bus.query without filters, over the values of `limit`: negative, zero,
\* small, the clamp and beyond it
QQueryLimits == {-2, 0, 1, QueryMaxLimit, QueryMaxLimit + 1}
QLimitArgs ==
    {Args(topic, limit, "", "", NoNum, NoNum, NoNum) :
        topic \in {"t1", "*"}, limit \in {NoLimit} \cup QQueryLimits}

QSortBys == {<<"priority">>, <<"created_at">>, <<"plugin_id", "priority">>}

QPlans ==
    {Get(a) : a \in QLeafArgs}
    \cup {Unary("limit", [n |-> n], Get(a)) : n \in 0 .. 2, a \in QPlainArgs}
    \cup {Unary("sort", [by |-> by, reverse |-> r], Get(a)) :
             by \in QSortBys, r \in BOOLEAN, a \in QPlainArgs}
    \cup {Binary(o, Get(a), Get(b)) :
             o \in {"merge", "intersection", "difference"},
             a \in QPlainArgs, b \in QPlainArgs}

\* (The guard of Answer stands in front of the choice of the request.)
QNext ==
    \/ /\ ret[QWorker] = NoRet
       /\ \E topic \in QTopicArgs, after_seq \in 0 .. MaxQSeq,
             limit \in 0 .. MaxQSeq :
             QGetSince(QWorker, topic, after_seq, limit)
    \/ /\ ret[QWorker] = NoRet
       /\ \E topic \in Topics, limit \in QLimits, light \in BOOLEAN :
             QGetRecentMp(QWorker, topic, limit, light)
    \/ /\ ret[QWorker] = NoRet
       /\ \E topic \in Topics, limit \in QLimits, light \in BOOLEAN :
             QGetRecentText(QWorker, topic, limit, light)
    \/ /\ ret[QWorker] = NoRet
       /\ \E a \in QArgs, light \in BOOLEAN, mode \in {"strict", "off"} :
             QQuery(QWorker, a, light, mode)
    \/ /\ ret[QWorker] = NoRet
       /\ \E plan \in QPlans, light \in BOOLEAN : QReplay(QWorker, plan, light)
    \/ /\ ret[QWorker] = NoRet
       /\ \E a \in QLimitArgs, mode \in {"strict", "warn", "off"} :
             QQuery(QWorker, a, FALSE, mode)

QSpec == QInit /\ [][QNext]_vars

(* --------------------- plan operators on event lists ------------------- *)
\* The events of the operand lists.
LEvents ==
    {MkEvent(1, NowTs, StoreName, "t1", Payload("A", "", 5, NoTs, "")),
     MkEvent(2, NowTs, StoreName, "t1", Payload("A", "k", 9, 1, "x")),
     MkEvent(3, NowTs, StoreName, "t2", Payload("B", "k", 5, 5, "x"))}

LInit ==
    /\ maxlen = MaxQSeq
    /\ topic_max = Cardinality(Topics)
    /\ stores = MpStateNew(maxlen, topic_max)
    /\ shard_of = [t \in Topics |-> t]
    /\ next_seq = MaxQSeq + 1
    /\ topics = EmptyMap
    /\ pushed = [t \in Topics |-> <<>>]
    /\ meta = EmptyMap
    /\ read_cache = EmptyMap
    /\ shard_w = [s \in Shards |-> NoThread]
    /\ pc = [t \in Threads |-> "idle"]
    /\ op = [t \in Threads |-> NoOp]
    /\ ret = [t \in Threads |-> NoRet]
    /\ created = <<>>
    /\ unchecked = FALSE
    /\ pub_enabled = TRUE
    /\ pub_rx = <<>>
    /\ pub_sent = <<>>
    /\ acked = <<>>
    /\ xs \in SeqsUpTo(LEvents, MaxListLen)
    /\ ys \in SeqsUpTo(LEvents, MaxListLen)
    /\ metrics = MetricsAfter(next_seq - 1)
    /\ calls = NoCalls
    /\ RpcInit

\* apply_binary_op(xs, ys, o)
LBinary(t, o) ==
    Answer(t, [op |-> o],
           [kind |-> "binary", items |-> ApplyBinaryOp(xs, ys, o)])

\* apply_binary_op(xs, xs, "merge")
LMergeSelf(t) ==
    Answer(t, [op |-> "merge"],
           [kind |-> "merge_self", items |-> ApplyBinaryOp(xs, xs, "merge")])

\* apply_unary_op(xs, "sort", {by, reverse})
LSort(t, by, reverse) ==
    Answer(t, [by |-> by, reverse |-> reverse],
           [kind |-> "sort",
            items |-> ApplyUnaryOp(xs, "sort",
                                   [by |-> by, reverse |-> reverse])])

LNext ==
    \/ /\ ret[QWorker] = NoRet
       /\ \E o \in {"merge", "intersection", "difference"} :
             LBinary(QWorker, o)
    \/ /\ ret[QWorker] = NoRet
       /\ LMergeSelf(QWorker)
    \/ /\ ret[QWorker] = NoRet
       /\ \E by \in QSortBys, reverse \in BOOLEAN : LSort(QWorker, by, reverse)

LSpec == LInit /\ [][LNext]_vars

(* ------------------------ claims on read operations -------------------- *)
\* The answer held by the worker that serves the read requests.
Resp == ret[QWorker]

\* The events get_since is asked for: the buffered events of the named
\* topic, or of every topic for "" and "*", with seq > after_seq.
SinceScope(req) ==
    {e \in (IF req.topic \in {"", "*"} THEN Buffered
            ELSE Events(Buffer(req.topic))) : e.seq > req.after_seq}

SinceAnswerOk ==
    Resp.kind = "since" =>
        LET Q == SinceScope(Resp.req)
            items == Resp.items
        IN  /\ Events(items) \subseteq Q
            /\ Len(items) = Min(Resp.req.limit, Cardinality(Q))
            /\ \A i, j \in 1 .. Len(items) :
                  i < j => items[i].seq < items[j].seq
            /\ \A e \in Q \ Events(items), x \in Events(items) :
                  x.seq < e.seq

\* C11: get_since(topic, after_seq, limit) returns exactly the buffered
\* events of the named topic (of all topics for an absent, empty or "*"
\* topic) with seq > after_seq, in strictly ascending seq order, cut to the
\* `limit` smallest qualifying seqs, and the call leaves the store as it was.
\* (The total_queries counter is not part of the model.)
C11_GetSinceContract ==
    /\ []SinceAnswerOk
    /\ [][ret'[QWorker].kind = "since" => UNCHANGED store_vars]_vars

\* get_since over all topics returned two events of different topics and
\* cut a third one off.
C11_Witness ==
    /\ Resp.kind = "since"
    /\ Resp.req.topic = "*" /\ Resp.req.after_seq = 0 /\ Resp.req.limit = 2
    /\ Cardinality(Buffered) = 3
    /\ Len(Resp.items) = 2
    /\ Resp.items[1].topic # Resp.items[2].topic

\* C12 (as claimed): a bus.publish that has stored its event returns
\* success, and a bus.get_recent on its topic with limit >= 1, issued before
\* any further write to the topic, returns with that event (its seq, topic,
\* payload and index) as its last item and at most `limit` items (a store
\* that keeps at least one event per topic).
C12_PublishThenGetRecent ==
    \A t \in Workers, limit \in 1 .. MaxLimit :
       Completed(t) /\ op[t].via = "rpc" /\ maxlen >= 1 =>
          LET items == GetRecentItems(op[t].topic, limit)
          IN  /\ ~SelfBlocked(t)
              /\ CanGetRecent(op[t].topic)
              /\ Len(items) \in 1 .. limit
              /\ items[Len(items)] = op[t].ev

\* An item without its payload field.
WithoutPayload(item) == [k \in DOMAIN item \ {"payload"} |-> item[k]]

\* The items the request of the answer gets with light = false, the topics
\* visited in `order`.
FullItems(order) ==
    LET req == Resp.req
    IN  CASE Resp.kind = "recent" /\ req.path = "mp" ->
                GetRecentResp(req.topic, req.limit, FALSE).items
          [] Resp.kind = "recent" /\ req.path = "text" ->
                GetRecentRespText(req.topic, req.limit, FALSE).items
          [] Resp.kind = "query" ->
                QueryResp(req.args, FALSE, req.mode, order).items
          [] Resp.kind = "replay" -> ReplayResp(req.plan, FALSE).items

\* C13: the items answered with light = true are the items answered to the
\* same request with light = false with only the payload field removed:
\* as many items, in the same order, each with the same seq, ts, store,
\* topic and index; for bus.get_recent (both paths), bus.query and
\* bus.replay.
C13_LightProjection ==
    Resp.kind \in {"recent", "query", "replay"} /\ Resp.req.light =>
       \A order \in IterOrders :
          LET full == FullItems(order)
          IN  /\ Len(Resp.items) = Len(full)
              /\ \A i \in 1 .. Len(full) :
                    /\ "payload" \in DOMAIN full[i]
                    /\ DOMAIN Resp.items[i] =
                          {"seq", "ts", "store", "topic", "index"}
                    /\ Resp.items[i] = WithoutPayload(full[i])

\* A light bus.query answered with two items.
C13_Witness ==
    /\ Resp.kind = "query"
    /\ Resp.req.light
    /\ Len(Resp.items) >= 2

\* A numeric filter argument that was supplied: a number or a numeric string.
Supplied(n) == n.given \in {"num", "str"}

\* The buffered events bus.query is asked for: those of the addressed topic,
\* or of every topic for "*" (an empty topic reads as "*" outside strict
\* mode), whose index satisfies every supplied filter.
QueryScope(a) ==
    {e \in (IF a.topic \in {"", "*"} THEN Buffered
            ELSE Events(Buffer(a.topic))) :
        /\ a.plugin_id # "" => e.index.plugin_id = a.plugin_id
        /\ a.source # "" => e.index.source = a.source
        /\ a.kind # "" => e.index.kind = a.kind
        /\ a.type # "" => e.index.type = a.type
        /\ Supplied(a.priority_min) => e.index.priority >= a.priority_min.v
        /\ Supplied(a.since_ts) => a.since_ts.v <= e.index.timestamp
        /\ Supplied(a.until_ts) => e.index.timestamp <= a.until_ts.v}

\* The limit in force: the one supplied, or the default when none >= 1 is.
QueryLimitAsked(a) == IF a.limit >= 1 THEN a.limit ELSE DefaultLimit

QueryAnswerOk ==
    Resp.kind = "query" =>
        LET a == Resp.req.args
            M == QueryScope(a)
            items == Resp.items
            seqs == {items[i].seq : i \in 1 .. Len(items)}
        IN  /\ \A i \in 1 .. Len(items) :
                  \E e \in M : items[i] = EventToMp(e, Resp.req.light)
            /\ Len(items) = Min(QueryLimitAsked(a), Cardinality(M))
            /\ \A i, j \in 1 .. Len(items) :
                  i < j => items[i].seq > items[j].seq
            /\ \A e \in M : e.seq \notin seqs => \A n \in seqs : e.seq < n

\* C14: bus.query answers with exactly the buffered events of the addressed
\* topic (of all topics for "*") whose index satisfies every supplied filter,
\* in strictly descending seq order, cut to the `limit` highest seqs, each
\* event once; the query leaves the store as it was.
C14_QueryContract ==
    /\ []QueryAnswerOk
    /\ [][ret'[QWorker].kind = "query" => UNCHANGED store_vars]_vars

\* A bus.query over all topics with an until_ts filter that excludes one of
\* three buffered events and a limit that cuts the two matches to one.
C14_Witness ==
    /\ Resp.kind = "query"
    /\ Resp.req.args.topic = "*"
    /\ Resp.req.args.until_ts.given = "num"
    /\ Resp.req.args.limit = 1
    /\ Cardinality(Buffered) = 3
    /\ Cardinality(QueryScope(Resp.req.args)) = 2
    /\ Len(Resp.items) = 1

\* C15 (as claimed): the replay plan that is a single `get` leaf with topic
\* T, limit L and any filters bus.query accepts answers with the same set of
\* events as bus.query with the same topic, limit and filters.
C15_ReplayGetEqualsQuery ==
    Resp.kind = "replay" /\ Resp.req.plan.kind = "get" =>
       \A order \in IterOrders :
          Events(Resp.items) =
             Events(QueryResp(Resp.req.plan.p, Resp.req.light, "off",
                              order).items)

\* C16 (as claimed): the plan `limit n = 1` over a `get` leaf without filter
\* keys, on a topic that holds at least one event, answers with exactly one
\* event, the one with the highest seq of the topic.
C16_LimitOneIsMostRecent ==
    LET plan == Resp.req.plan
    IN  /\ Resp.kind = "replay"
        /\ plan.kind = "unary"
        /\ plan.op = "limit"
        /\ plan.params.n = 1
        /\ Buffer(plan.child.p.topic) # <<>>
        => /\ Len(Resp.items) = 1
           /\ Resp.items[1].seq =
                 Buffer(plan.child.p.topic)[Len(Buffer(plan.child.p.topic))].seq

(* ------------------------ claims on plan operators --------------------- *)
\* X deduplicated by dedupe key: of the events of X with the same key the
\* one that comes first in X.
FirstOfKey(X) ==
    {X[i] : i \in {k \in 1 .. Len(X) :
                      \A j \in 1 .. k - 1 : DedupeKey(X[j]) # DedupeKey(X[k])}}

\* C17: merge(xs, xs) holds exactly the events of xs deduplicated by dedupe
\* key, each key once (in seq-descending order); every event of
\* intersection(xs, ys) is an event of xs whose dedupe key is the key of an
\* event of ys; no dedupe key occurs both in difference(xs, ys) and in
\* intersection(xs, ys).
C17_SetAlgebraDedupe ==
    LET items == Resp.items
    IN  /\ Resp.kind = "merge_self" =>
              /\ Events(items) = FirstOfKey(xs)
              /\ Len(items) = Cardinality(Keys(xs))
              /\ items = StableSort(items, SeqDesc(Events(items)))
        /\ Resp.kind = "binary" /\ Resp.req.op = "intersection" =>
              /\ Events(items) \subseteq Events(xs)
              /\ Keys(items) \subseteq Keys(ys)
        /\ Resp.kind = "binary" /\ Resp.req.op = "difference" =>
              Keys(items) \cap Keys(Intersection(xs, ys)) = {}
        /\ Resp.kind = "binary" /\ Resp.req.op = "intersection" =>
              Keys(items) \cap Keys(Difference(xs, ys)) = {}

\* merge(xs, xs) of a list of three events, two of which share a dedupe key.
C17_Witness ==
    /\ Resp.kind = "merge_self"
    /\ Cardinality(Events(xs)) = 3
    /\ Cardinality(Keys(xs)) = 2
    /\ Len(Resp.items) = 2

\* C18: the unary sort is stable, with reverse = false and with reverse =
\* true: the answer is a rearrangement of xs in which any two events with
\* equal keys on all sort fields stand in their order in xs; sorting by
\* fields on which all events of xs have the same key answers with xs.
C18_SortStable ==
    Resp.kind = "sort" =>
       LET by == Resp.req.by
           items == Resp.items
       IN  /\ Len(items) = Len(xs)
           /\ \A a \in Events(xs) : Filter(items, {a}) = Filter(xs, {a})
           /\ \A a, b \in Events(xs) :
                 SortKey(a, by) = SortKey(b, by) =>
                    Filter(items, {a, b}) = Filter(xs, {a, b})
           /\ (\A a, b \in Events(xs) : SortKey(a, by) = SortKey(b, by))
                 => items = xs

\* A reverse sort by priority moved an event of another priority from
\* between two different events of equal priority.
C18_Witness ==
    /\ Resp.kind = "sort"
    /\ Resp.req.reverse
    /\ Resp.req.by = <<"priority">>
    /\ Len(xs) = 3
    /\ xs[1] # xs[3]
    /\ SortKey(xs[1], Resp.req.by) = SortKey(xs[3], Resp.req.by)
    /\ SortKey(xs[2], Resp.req.by) # SortKey(xs[1], Resp.req.by)
    /\ Resp.items # xs

(* ------------------------------ pub channel ---------------------------- *)
\* The pub side of the handlers, taken from the point where Store::publish
\* has returned its event: what the handler puts on the channel to the
\* ingest thread, and what the ingest thread sends on the PUB socket.  A
\* Store::publish call is one step here.

\* "." of format!("{}.{}", store, topic)
Dot == <<46>>

\* handlers.rs:411-424: the PubMsg of handle_publish_mp.
PubMsgMp(ev) ==
    [topic |-> Code(ev.topic), body |-> [enc |-> "msgpack", ev |-> ev]]

\* handlers.rs:649-659: the PubMsg of the text path of bus.publish.
PubMsgText(ev) ==
    [topic |-> Code(ev.store) \o Dot \o Code(ev.topic),
     body |-> [enc |-> "json", ev |-> ev]]

\* main.rs:291-303, 361-372: the frame the ingest handlers send.
PubFrame(ev) ==
    [topic |-> Code(ev.store) \o Dot \o Code(ev.topic),
     body |-> [enc |-> "msgpack", ev |-> ev]]

\* The store and its histories, as a record.
StoreState ==
    [next_seq |-> next_seq, topics |-> topics, meta |-> meta,
     read_cache |-> read_cache, created |-> created, pushed |-> pushed,
     metrics |-> metrics, out |-> <<>>]

\* (PublishUncounted: a publish leaves the counters alone.)
PublishUncounted(m) == m

\* types.rs:142: metrics_total_publishes.fetch_add(1)
PublishCounted(m) == [m EXCEPT !.total_publishes = @ + 1]

\* types.rs:87-147: Store::publish from call to return; `out` collects the
\* events returned.
Publish(st, topic, payload) ==
    LET ev == MkEvent(st.next_seq, NowTs, StoreName, topic, payload)
        q == PushBack(IF topic \in DOMAIN st.topics THEN st.topics[topic]
                      ELSE <<>>, ev, maxlen)
        m == MetaEntry(st.meta, topic)
    IN  [next_seq |-> FetchAdd(st.next_seq),
         topics |-> Put(st.topics, topic, q),
         meta |-> [m EXCEPT ![topic].count_total = @ + 1],
         read_cache |-> Put(st.read_cache, topic, q),
         created |-> Append(st.created, ev),
         pushed |-> [st.pushed EXCEPT ![topic] = Append(@, ev)],
         metrics |-> PublishCounted(st.metrics),
         out |-> Append(st.out, ev)]

RECURSIVE PublishEach(_, _, _)
\* main.rs:283-285, types.rs:170-171: publish of each record in turn
PublishEach(st, topic, records) ==
    IF records = <<>> THEN st
    ELSE PublishEach(Publish(st, topic, Head(records)), topic, Tail(records))

\* types.rs:149-174: Store::replace_topic from call to return.
ReplaceTopic(st, topic, records) ==
    PublishEach([st EXCEPT !.topics = Put(st.topics, topic, <<>>),
                           !.meta = Put(st.meta, topic, [count_total |-> 0]),
                           !.pushed = [st.pushed EXCEPT ![topic] = <<>>]],
                topic, records)

\* The store becomes st.
SetStore(st) ==
    /\ next_seq' = st.next_seq
    /\ topics' = st.topics
    /\ meta' = st.meta
    /\ read_cache' = st.read_cache
    /\ created' = st.created
    /\ pushed' = st.pushed
    /\ metrics' = st.metrics

RECURSIVE Frames(_)
\* the frames of the events of a list
Frames(evs) ==
    IF evs = <<>> THEN <<>> ELSE <<PubFrame(Head(evs))>> \o Frames(Tail(evs))

\* the batch of the flush loop (main.rs:74)
FlushBatch == 256

PInit ==
    /\ maxlen \in 1 .. MaxStoreMaxlen
    /\ topic_max = CfgTopicMax
    /\ stores = MpStateNew(maxlen, topic_max)
    /\ shard_of = [t \in Topics |-> t]
    /\ next_seq = 1
    /\ topics = EmptyMap
    /\ meta = EmptyMap
    /\ read_cache = EmptyMap
    /\ shard_w = [s \in Shards |-> NoThread]
    /\ pc = [t \in Threads |-> IF t = Ingest THEN "flush" ELSE "idle"]
    /\ op = [t \in Threads |-> NoOp]
    /\ ret = [t \in Threads |-> NoRet]
    /\ created = <<>>
    /\ pushed = [t \in Topics |-> <<>>]
    /\ unchecked = FALSE
    /\ pub_enabled \in BOOLEAN
    /\ pub_rx = <<>>
    /\ pub_sent = <<>>
    /\ acked = <<>>
    /\ xs = <<>>
    /\ ys = <<>>
    /\ metrics = MetricsAfter(next_seq - 1)
    /\ calls = NoCalls
    /\ RpcInit

\* handle_publish_mp (handlers.rs:371-442): an empty topic is refused;
\* otherwise the event is published and its PubMsg queued, whatever
\* pub_enabled is.
HandlePublishMp(t, topic, payload) ==
    /\ pc[t] = "idle"
    /\ IF topic = ""
          THEN /\ ret' = [ret EXCEPT ![t] = [NoRet EXCEPT !.kind = "BAD_ARGS"]]
               /\ UNCHANGED <<store_vars, metrics, hist_vars, pub_vars>>
          ELSE /\ next_seq <= MaxPub
               /\ LET st == Publish(StoreState, topic, payload)
                  IN  /\ SetStore(st)
                      /\ pub_rx' = Append(pub_rx, PubMsgMp(st.out[1]))
                      /\ acked' = Append(acked, st.out[1])
                      /\ ret' = [ret EXCEPT ![t] =
                                   [kind |-> "accepted", items |-> st.out]]
               /\ unchecked' = TRUE
               /\ UNCHANGED <<pub_enabled, pub_sent>>
    /\ UNCHANGED <<cfg_vars, calls, list_vars, rpc_vars, shard_w, pc, op>>

\* handle_rpc, op "bus.publish" (handlers.rs:596-670): an empty topic and a
\* new topic over the cap are refused; otherwise the event is published and
\* its PubMsg queued if NEKO_MESSAGE_PLANE_PUB_ENABLED reads as true.  The
\* variable is true or unset when pub_enabled holds (config.rs:100-105) and
\* anything when it does not (the flag --pub-enabled can be off by itself).
HandlePublishText(t, topic, payload) ==
    /\ pc[t] = "idle"
    /\ IF topic = "" \/ TopicCapReached(topic)
          THEN /\ ret' = [ret EXCEPT ![t] = [NoRet EXCEPT !.kind = "BAD_ARGS"]]
               /\ UNCHANGED <<store_vars, metrics, hist_vars, pub_vars>>
          ELSE /\ next_seq <= MaxPub
               /\ LET st == Publish(StoreState, topic, payload)
                  IN  /\ SetStore(st)
                      /\ \E env \in (IF pub_enabled THEN {TRUE} ELSE BOOLEAN) :
                            pub_rx' = IF env
                                      THEN Append(pub_rx, PubMsgText(st.out[1]))
                                      ELSE pub_rx
                      /\ acked' = Append(acked, st.out[1])
                      /\ ret' = [ret EXCEPT ![t] =
                                   [kind |-> "accepted", items |-> st.out]]
               /\ UNCHANGED <<unchecked, pub_enabled, pub_sent>>
    /\ UNCHANGED <<cfg_vars, calls, list_vars, rpc_vars, shard_w, pc, op>>

\* main.rs:71-84: the top of the ingest loop: if pub_enabled, up to 256
\* queued PubMsg are sent; then the thread waits in pull.recv_bytes(0).
FlushPubRx ==
    /\ pc[Ingest] = "flush"
    /\ LET n == IF pub_enabled THEN Min(Len(pub_rx), FlushBatch) ELSE 0
       IN  /\ pub_sent' = pub_sent \o SubSeq(pub_rx, 1, n)
           /\ pub_rx' = SubSeq(pub_rx, n + 1, Len(pub_rx))
    /\ pc' = [pc EXCEPT ![Ingest] = "idle"]
    /\ UNCHANGED <<cfg_vars, metric_vars, list_vars, rpc_vars, store_vars, hist_vars, shard_w, op,
                   ret, pub_enabled, acked>>

\* main.rs:86-108, 308-374: a delta batch of one item arrives; an item over
\* the topic cap is skipped; the frame of the event goes out on the PUB
\* socket at once if pub_enabled; back to the top of the loop.
HandleDeltaBatch(topic, payload) ==
    /\ pc[Ingest] = "idle"
    /\ IF TopicCapReached(topic)
          THEN UNCHANGED <<store_vars, metrics, hist_vars, pub_sent>>
          ELSE /\ next_seq <= MaxPub
               /\ LET st == Publish(StoreState, topic, payload)
                  IN  /\ SetStore(st)
                      /\ pub_sent' = IF pub_enabled
                                     THEN pub_sent \o Frames(st.out)
                                     ELSE pub_sent
               /\ UNCHANGED unchecked
    /\ pc' = [pc EXCEPT ![Ingest] = "flush"]
    /\ UNCHANGED <<cfg_vars, calls, list_vars, rpc_vars, shard_w, op, ret, pub_enabled, pub_rx,
                   acked>>

\* main.rs:237-306: a snapshot arrives: the records are appended or replace
\* the topic; the frames of the events go out on the PUB socket at once if
\* pub_enabled; back to the top of the loop.
HandleSnapshot(topic, records, mode) ==
    /\ pc[Ingest] = "idle"
    /\ IF TopicCapReached(topic)
          THEN UNCHANGED <<store_vars, metrics, hist_vars, pub_sent>>
          ELSE /\ next_seq + Len(records) <= MaxPub + 1
               /\ LET st == IF mode = "append"
                            THEN PublishEach(StoreState, topic, records)
                            ELSE ReplaceTopic(StoreState, topic, records)
                  IN  /\ SetStore(st)
                      /\ pub_sent' = IF pub_enabled
                                     THEN pub_sent \o Frames(st.out)
                                     ELSE pub_sent
               /\ UNCHANGED unchecked
    /\ pc' = [pc EXCEPT ![Ingest] = "flush"]
    /\ UNCHANGED <<cfg_vars, calls, list_vars, rpc_vars, shard_w, op, ret, pub_enabled, pub_rx,
                   acked>>

PNext ==
    \/ \E t \in Workers, topic \in Topics \cup {""}, payload \in Payloads :
          HandlePublishMp(t, topic, payload)
    \/ \E t \in Workers, topic \in Topics \cup {""}, payload \in Payloads :
          HandlePublishText(t, topic, payload)
    \/ FlushPubRx
    \/ \E topic \in Topics, payload \in Payloads :
          HandleDeltaBatch(topic, payload)
    \/ \E topic \in Topics, records \in SeqsUpTo(Payloads, MaxRecords),
          mode \in {"replace", "append"} : HandleSnapshot(topic, records, mode)

PSpec == PInit /\ [][PNext]_vars

\* The ingest thread is scheduled: the flush at the top of its loop is
\* taken.  Requests and ingest messages come from outside and may stop.
PFairSpec == PSpec /\ WF_vars(FlushPubRx)

(* ------------------------ claims on the pub channel -------------------- *)
\* The number of frames sent that carry the event ev.
FramesOf(ev) ==
    Cardinality({i \in 1 .. Len(pub_sent) : pub_sent[i].body.ev = ev})

\* bus.publish has answered success with the event of seq n.
Acked(n) == \E i \in 1 .. Len(acked) : acked[i].seq = n

\* C19 (as claimed): every bus.publish answered with success, on either
\* path, has at most one frame sent for its event and none while publishing
\* is disabled; with publishing enabled its frame is eventually sent, whether
\* or not another ingest message arrives; a refused request has no frame.
C19_OneFramePerPublish ==
    /\ [](\A i \in 1 .. Len(acked) :
             FramesOf(acked[i]) <= (IF pub_enabled THEN 1 ELSE 0))
    /\ [](\A i \in 1 .. Len(pub_sent) :
             \E j \in 1 .. Len(created) : pub_sent[i].body.ev = created[j])
    /\ \A n \in 1 .. MaxPub :
          (pub_enabled /\ Acked(n)) ~>
             (\E i \in 1 .. Len(acked) :
                 acked[i].seq = n /\ FramesOf(acked[i]) = 1)

\* C20 (as claimed): the first part of every frame sent on the PUB socket is
\* the bytes of "<store>.<topic>" of the event the frame carries.
C20_FrameTopicKey ==
    \A i \in 1 .. Len(pub_sent) :
       pub_sent[i].topic =
          Code(pub_sent[i].body.ev.store) \o Dot
             \o Code(pub_sent[i].body.ev.topic)

(* ----------------------------- RPC envelope ---------------------------- *)
\* types.rs:252-295: the stores of MpState; MpState::store(name) finds
\* these names and no other.
RegisteredStores ==
    {"messages", "events", "lifecycle", "runs", "export", "memory"}

StoreFound(name) == name \in RegisteredStores

\* NEKO_MESSAGE_PLANE_TOPIC_NAME_MAX_LEN (handlers.rs:377-380, 494-497)
TopicNameMaxLen == 128
\* NEKO_MESSAGE_PLANE_PAYLOAD_MAX_BYTES (handlers.rs:381-384, 502-505)
PayloadMaxBytes == 262144
\* a topic name of TopicNameMaxLen + 1 bytes
LongTopic == "long"

\* topic.len()
TopicLen(topic) ==
    IF topic = LongTopic THEN TopicNameMaxLen + 1 ELSE Len(Code(topic))

\* an argument that is not given
NoStore == ""
NoPlan == [kind |-> "none"]

\* The `args` of a request.  `bytes` is the length of the payload encoded
\* with rmp_serde::to_vec_named; a `topic` of "" is a topic that is missing
\* or empty.
ReqArgs(store, topic, bytes, limit, plan) ==
    [store |-> store, topic |-> topic,
     payload |-> Payload("A", "", 5, NoTs, ""), bytes |-> bytes,
     limit |-> limit, plan |-> plan]

NoArgs == ReqArgs(NoStore, "", 0, NoLimit, NoPlan)

\* A decoded request body: a map (JSON object) with the keys v, op and
\* args, or a value of another form.
Request(v, o, args) == [form |-> "map", v |-> v, op |-> o, args |-> args]

NotAMap(form) == [form |-> form, v |-> NoNum, op |-> "", args |-> NoArgs]

\* `store` of a request, "messages" when it is not given
\* (handlers.rs:90-99, 233, 385, 538-541, 597-600)
StoreArg(a) == IF a.store = NoStore THEN StoreName ELSE a.store

\* handlers.rs:32-44, 507-524: the request is refused for its missing `v`.
VersionMissing(mode, v) == mode = "strict" /\ v.given = "none"

\* (ProtocolVersionAny: every `v` is taken to be version 1.)
ProtocolVersionAny(mode, v) == 1

\* handlers.rs:32-44, 507-524: the protocol version the request is taken to
\* have: `vv.as_i64()`, and for a `v` that is no integer -1 in strict mode
\* and 1 in every other mode; 1 for a missing `v` outside strict mode.
ProtocolVersion(mode, v) ==
    CASE v.given = "num" -> v.v
      [] v.given = "none" -> 1
      [] OTHER -> IF mode = "strict" THEN -1 ELSE 1

\* rpc_err (rpc.rs:34-47): an error envelope
RpcErr(code) == [kind |-> code, items |-> <<>>]

\* the handler calls Store::publish
ToPublish == [kind |-> "publish", items |-> <<>>]

\* handle_get_recent_mp (handlers.rs:85-153)
GetRecentMp(a) ==
    IF StoreFound(StoreArg(a)) THEN GetRecentResp(a.topic, a.limit, FALSE)
    ELSE RpcErr("BAD_STORE")

\* handle_rpc, op "bus.get_recent" (handlers.rs:537-593)
GetRecentText(a) ==
    IF StoreFound(StoreArg(a)) THEN GetRecentRespText(a.topic, a.limit, FALSE)
    ELSE RpcErr("BAD_STORE")

\* handle_replay_mp (handlers.rs:155-225)
ReplayMp(a, mode) ==
    IF mode = "strict" /\ a.store = NoStore THEN RpcErr("BAD_ARGS")
    ELSE IF a.plan = NoPlan THEN RpcErr("BAD_ARGS")
    ELSE IF StoreFound(StoreArg(a)) THEN ReplayResp(a.plan, FALSE)
    ELSE RpcErr("BAD_STORE")

\* the filter and addressing arguments of a bus.query without filters
QueryArgs(a) == Args(a.topic, a.limit, "", "", NoNum, NoNum, NoNum)

\* handle_query_mp (handlers.rs:227-369): the store is looked up at
\* handlers.rs:286, and a store that is not found leaves `snapshots` empty.
QueryMp(a, mode, order) ==
    IF QueryBadArgs(QueryArgs(a), mode) THEN RpcErr("BAD_ARGS")
    ELSE IF StoreFound(StoreArg(a))
            THEN QueryResp(QueryArgs(a), FALSE, mode, order)
            ELSE [kind |-> "query", items |-> <<>>]

\* handle_publish_mp (handlers.rs:371-409), up to the call of
\* Store::publish: the size of the payload is checked whatever
\* NEKO_MESSAGE_PLANE_VALIDATE_PAYLOAD_BYTES says.
PublishMp(a) ==
    IF a.topic = "" THEN RpcErr("BAD_ARGS")
    ELSE IF TopicLen(a.topic) > TopicNameMaxLen THEN RpcErr("BAD_ARGS")
    ELSE IF a.bytes > PayloadMaxBytes THEN RpcErr("BAD_ARGS")
    ELSE IF StoreFound(StoreArg(a)) THEN ToPublish
    ELSE RpcErr("BAD_STORE")

\* handle_rpc, op "bus.publish" (handlers.rs:596-640), up to the call of
\* Store::publish.
PublishText(a, validate) ==
    IF a.topic = "" THEN RpcErr("BAD_ARGS")
    ELSE IF TopicLen(a.topic) > TopicNameMaxLen THEN RpcErr("BAD_ARGS")
    ELSE IF validate /\ a.bytes > PayloadMaxBytes THEN RpcErr("BAD_ARGS")
    ELSE IF ~StoreFound(StoreArg(a)) THEN RpcErr("BAD_STORE")
    ELSE IF TopicCapReached(a.topic)
            THEN [kind |-> "too_many_topics", items |-> <<>>]
            ELSE ToPublish

\* rpc_ok(req_id, RpcHealthResult) (handlers.rs:53-61, 533-535)
Health == [kind |-> "health", items |-> <<>>]

\* handle_rpc_mp (handlers.rs:16-83).  mp_get finds no key in a value that
\* is not a map (utils.rs:37-47), so such a value reads as a request
\* without v, op and args.
HandleRpcMp(req, mode, order) ==
    IF VersionMissing(mode, req.v) THEN RpcErr("BAD_VERSION")
    ELSE IF ProtocolVersion(mode, req.v) # 1 THEN RpcErr("BAD_VERSION")
    ELSE CASE req.op \in {"ping", "health"} -> Health
           [] req.op = "bus.get_recent" -> GetRecentMp(req.args)
           [] req.op = "bus.replay" -> ReplayMp(req.args, mode)
           [] req.op = "bus.query" -> QueryMp(req.args, mode, order)
           [] req.op = "bus.publish" -> PublishMp(req.args)
           [] OTHER -> RpcErr("UNKNOWN_OP")

\* handle_rpc (handlers.rs:462-674)
HandleRpc(req, mode, validate) ==
    IF req.form # "map" THEN RpcErr("BAD_REQ")
    ELSE IF VersionMissing(mode, req.v) THEN RpcErr("BAD_VERSION")
    ELSE IF ProtocolVersion(mode, req.v) # 1 THEN RpcErr("BAD_VERSION")
    ELSE CASE req.op \in {"ping", "health"} -> Health
           [] req.op = "bus.get_recent" -> GetRecentText(req.args)
           [] req.op = "bus.publish" -> PublishText(req.args, validate)
           [] OTHER -> RpcErr("UNKNOWN_OP")

(* ------------------- one request given to a handler -------------------- *)
\* The service after start-up, in each validation mode and with payload
\* size validation on or off; worker QWorker is given one request per run.
HInit ==
    /\ maxlen = MaxStoreMaxlen
    /\ topic_max = CfgTopicMax
    /\ stores = MpStateNew(maxlen, topic_max)
    /\ shard_of = [t \in Topics |-> t]
    /\ next_seq = 1
    /\ topics = EmptyMap
    /\ meta = EmptyMap
    /\ read_cache = EmptyMap
    /\ shard_w = [s \in Shards |-> NoThread]
    /\ pc = [t \in Threads |-> "idle"]
    /\ op = [t \in Threads |-> NoOp]
    /\ ret = [t \in Threads |-> NoRet]
    /\ created = <<>>
    /\ pushed = [t \in Topics |-> <<>>]
    /\ unchecked = FALSE
    /\ pub_enabled = TRUE
    /\ pub_rx = <<>>
    /\ pub_sent = <<>>
    /\ acked = <<>>
    /\ xs = <<>>
    /\ ys = <<>>
    /\ metrics = MetricsAfter(next_seq - 1)
    /\ calls = NoCalls
    /\ validate_mode \in {"strict", "warn", "off"}
    /\ validate_payload_bytes \in BOOLEAN
    /\ task_q = <<>>
    /\ result_q = <<>>
    /\ task = [w \in Workers |-> NoTask]
    /\ alive = Workers
    /\ router_in = <<>>
    /\ handled = <<>>
    /\ router_out = <<>>
    /\ batch = <<>>
    /\ ingest_log = <<>>

\* handlers.rs:139, 563, query.rs:491: the topics the handler of `req` calls
\* get_recent with; only the handlers that answer with the recent events or
\* evaluate a plan call it.
HandlerGets(req, resp) ==
    IF resp.kind = "recent" THEN <<req.args.topic>>
    ELSE IF resp.kind \in {"replay", "panic"} THEN PlanGets(req.args.plan)
    ELSE <<>>

\* Worker t hands the decoded request `req` to the handler of `path` and
\* gets `resp`: an envelope to send back, or the call of Store::publish
\* (handlers.rs:411, 635), whose steps follow.
Handle(t, path, req, resp) ==
    /\ pc[t] = "idle"
    /\ ret[t] = NoRet
    /\ ret' = [ret EXCEPT ![t] =
                 [kind |-> resp.kind, items |-> resp.items, req |-> req,
                  path |-> path]]
    /\ IF resp = ToPublish
          THEN /\ pc' = [pc EXCEPT ![t] = "seq"]
               /\ op' = [op EXCEPT ![t] =
                           Call("rpc", req.args.topic, <<req.args.payload>>)]
               /\ unchecked' = (unchecked \/ path = "mp")
          ELSE UNCHANGED <<pc, op, unchecked>>
    /\ StoreRead(HandlerGets(req, resp), 0)
    /\ UNCHANGED <<cfg_vars, pub_vars, list_vars, rpc_vars, store_vars,
                   shard_w, created, pushed>>

\* handle_rpc_mp(req)
CallRpcMp(t, req) ==
    \E order \in IterOrders :
       Handle(t, "mp", req, HandleRpcMp(req, validate_mode, order))

\* handle_rpc(req)
CallRpc(t, req) ==
    Handle(t, "text", req,
           HandleRpc(req, validate_mode, validate_payload_bytes))

\* the requests
HVersions == {NoNum, Num("num", 1), Num("num", 2), Num("str", 1)}
HOps == {"ping", "health", "bus.get_recent", "bus.publish", "bus.query",
         "bus.replay", "bus.other", ""}
HStores == {NoStore, "messages", "nostore"}
HTopics == {"", "t1", LongTopic}
HBytes == {1, PayloadMaxBytes + 1}
HPlans == {NoPlan, Get(Args("t1", NoLimit, "", "", NoNum, NoNum, NoNum))}

HRequests ==
    {Request(v, o, ReqArgs(store, topic, bytes, NoLimit, plan)) :
        v \in HVersions, o \in HOps, store \in HStores, topic \in HTopics,
        bytes \in HBytes, plan \in HPlans}
    \cup {NotAMap("int"), NotAMap("null")}

HNext ==
    \/ /\ ret[QWorker] = NoRet
       /\ \E req \in HRequests : CallRpcMp(QWorker, req)
    \/ /\ ret[QWorker] = NoRet
       /\ \E req \in HRequests : CallRpc(QWorker, req)
    \/ PublishSeq(QWorker)
    \/ PublishMetaEntry(QWorker)
    \/ PublishTopicsEntry(QWorker)
    \/ PublishWrite(QWorker)
    \/ PublishMetaUpdate(QWorker)

HSpec == HInit /\ [][HNext]_vars

\* the request worker QWorker was given and the answer of its handler
HReq == ret[QWorker].req
HResp == ret[QWorker].kind
HAnswered == ret[QWorker] # NoRet
\* the store, the pub channel and the worker are as they were at start-up
HUntouched ==
    /\ next_seq = 1
    /\ topics = EmptyMap
    /\ meta = EmptyMap
    /\ read_cache = EmptyMap
    /\ created = <<>>
    /\ pub_rx = <<>>
    /\ pub_sent = <<>>
    /\ pc[QWorker] = "idle"

(* ------------------------ claims on the envelope ----------------------- *)
\* the answer the handler of the path of the request gives to `req`
HAnswerTo(req) ==
    IF ret[QWorker].path = "mp"
       THEN {HandleRpcMp(req, validate_mode, order).kind :
                order \in IterOrders}
       ELSE {HandleRpc(req, validate_mode, validate_payload_bytes).kind}

\* the request with `v` replaced by the integer 1
AsVersionOne(req) == [req EXCEPT !.v = Num("num", 1)]

\* C23 (as stated): on both paths a request without `v` is answered
\* BAD_VERSION in strict mode and handled as version 1 in the modes warn and
\* off; a request whose `v` is present and is not the integer 1 is answered
\* BAD_VERSION in every mode; a request answered BAD_VERSION changes no
\* store state and queues no fan-out.
C23_VersionAsStated ==
    (HAnswered /\ HReq.form = "map") =>
       /\ HReq.v.given = "none" =>
             IF validate_mode = "strict" THEN HResp = "BAD_VERSION"
             ELSE HResp \in HAnswerTo(AsVersionOne(HReq))
       /\ (HReq.v.given # "none" /\ HReq.v # Num("num", 1)) =>
             HResp = "BAD_VERSION"
       /\ HResp = "BAD_VERSION" => HUntouched

\* C23 (amended): on both paths a request without `v`, or with a `v` that
\* is not an integer, is answered BAD_VERSION in strict mode and handled as
\* version 1 in the modes warn and off; a request whose `v` is an integer
\* other than 1 is answered BAD_VERSION in every mode; a request answered
\* BAD_VERSION changes no store state and queues no fan-out.
C23_VersionCheck ==
    (HAnswered /\ HReq.form = "map") =>
       /\ HReq.v.given # "num" =>
             IF validate_mode = "strict" THEN HResp = "BAD_VERSION"
             ELSE HResp \in HAnswerTo(AsVersionOne(HReq))
       /\ (HReq.v.given = "num" /\ HReq.v.v # 1) => HResp = "BAD_VERSION"
       /\ HResp = "BAD_VERSION" => HUntouched

\* a request whose `v` is a string was handled as version 1 in warn mode:
\* its bus.publish entered Store::publish
C23_Witness ==
    /\ HAnswered
    /\ ret[QWorker].path = "text"
    /\ validate_mode = "warn"
    /\ HReq.v = Num("str", 1)
    /\ HReq.op = "bus.publish"
    /\ HReq.args.topic = "t1"
    /\ HResp = "publish"
    /\ next_seq = 2

\* the operations of the service
KnownOps == {"ping", "health", "bus.get_recent", "bus.publish", "bus.query",
             "bus.replay"}

\* the answers each operation gives
OpAnswers(o) ==
    CASE o \in {"ping", "health"} -> {"health"}
      [] o = "bus.get_recent" -> {"recent", "BAD_STORE"}
      [] o = "bus.publish" ->
            {"publish", "BAD_ARGS", "too_many_topics", "BAD_STORE"}
      [] o = "bus.query" -> {"query", "BAD_ARGS"}
      [] o = "bus.replay" -> {"replay", "BAD_ARGS", "BAD_STORE"}
      [] OTHER -> {}

\* C24: on both paths a request with version 1 whose op is one of ping,
\* health, bus.get_recent, bus.publish, bus.query, bus.replay gets the
\* answer of that operation, and a request with any other op (or none) is
\* answered UNKNOWN_OP; UNKNOWN_OP answers no op of the six.
C24_OpDispatch ==
    (HAnswered /\ HReq.form = "map" /\ HReq.v = Num("num", 1)) =>
       IF HReq.op \in KnownOps THEN HResp \in OpAnswers(HReq.op)
       ELSE HResp = "UNKNOWN_OP"

\* the answers with ok = true, and the call of Store::publish, which is
\* answered with ok = true when it returns
OkAnswers == {"health", "recent", "query", "replay", "publish"}

\* the arguments of the request are valid for its op, the store apart
HValidArgs ==
    CASE HReq.op = "bus.publish" ->
            /\ HReq.args.topic = "t1"
            /\ HReq.args.bytes <= PayloadMaxBytes
      [] HReq.op = "bus.query" -> HReq.args.topic = "t1"
      [] HReq.op = "bus.replay" -> HReq.args.plan # NoPlan
      [] OTHER -> TRUE

\* C25: a bus.get_recent, bus.publish, bus.query or bus.replay request that
\* names a store outside the six registered ones is never answered with
\* ok = true, is answered BAD_STORE when its other arguments are valid and
\* its handler has the op, and changes no store state.
C25_UnknownStoreRefused ==
    (/\ HAnswered
     /\ HReq.form = "map"
     /\ HReq.v = Num("num", 1)
     /\ HReq.op \in {"bus.get_recent", "bus.publish", "bus.query",
                     "bus.replay"}
     /\ ~StoreFound(StoreArg(HReq.args))) =>
       /\ HResp \notin OkAnswers
       /\ (HValidArgs /\ HResp # "UNKNOWN_OP") => HResp = "BAD_STORE"
       /\ HUntouched

\* C27: on both paths a bus.publish (version 1, registered store) is
\* answered BAD_ARGS, with no seq allocated, no buffer or metadata changed
\* and no fan-out queued, when its topic is missing or empty, when its topic
\* is longer than topic_name_max_len, or when its encoded payload is larger
\* than payload_max_bytes while payload size validation is enabled; with the
\* validation disabled no payload is refused for its size.
C27_PublishBadArgs ==
    (/\ HAnswered
     /\ HReq.form = "map"
     /\ HReq.v = Num("num", 1)
     /\ HReq.op = "bus.publish"
     /\ StoreFound(StoreArg(HReq.args))) =>
       LET a == HReq.args
           badTopic == a.topic = "" \/ TopicLen(a.topic) > TopicNameMaxLen
       IN  /\ (badTopic \/ (validate_payload_bytes
                             /\ a.bytes > PayloadMaxBytes)) =>
                 (HResp = "BAD_ARGS" /\ HUntouched)
           /\ (~validate_payload_bytes /\ ~badTopic) => HResp = "publish"

\* the limit the claim puts in force for the `limit` l of a request
EffectiveLimit(l) ==
    IF l = NoLimit \/ l <= 0 THEN DefaultLimit
    ELSE IF l > QueryMaxLimit THEN QueryMaxLimit ELSE l

\* C26: for every integer `limit`, bus.query (with a topic) answers BAD_ARGS
\* in strict mode when the limit is zero or negative and takes 200 in its
\* place in warn mode; a limit above 10000 reads as 10000 and an absent one
\* as 200; the answer holds the matches up to the limit in force, never more.
C26_QueryLimit ==
    (/\ Resp.kind \in {"query", "BAD_ARGS"}
     /\ Resp.req.args \in QLimitArgs) =>
       LET a == Resp.req.args
           refused == /\ a.limit # NoLimit
                      /\ a.limit <= 0
                      /\ Resp.req.mode = "strict"
       IN  IF refused THEN Resp.kind = "BAD_ARGS"
           ELSE /\ Resp.kind = "query"
                /\ Len(Resp.items) =
                      Min(EffectiveLimit(a.limit),
                          Cardinality(QueryScope(a)))

(* ----------------------------- RPC transport --------------------------- *)
\* number of multipart messages the ROUTER receives in a run
MaxReqs == 2

\* Request bodies: the MessagePack encoding of a map, the MessagePack
\* encoding of an integer, the JSON text of an object, and the empty body.
MpBody(req) == [form |-> "mp_map", req |-> req]
MpInt == [form |-> "mp_int", req |-> NotAMap("int")]
JsonBody(req) == [form |-> "json", req |-> req]
EmptyBody == [form |-> "empty", req |-> NotAMap("null")]

\* The first byte of a body that is not empty: the fixmap marker 0x83 of a
\* map of three keys, the positive fixint 7, and "{" (0x7b), the first byte
\* of the JSON text of an object.
FirstByte(body) ==
    CASE body.form = "mp_map" -> 131
      [] body.form = "mp_int" -> 7
      [] body.form = "json" -> 123

\* decode_msgpack_value (utils.rs:28-31): rmpv::decode::read_value reads one
\* value from the front of the body and leaves the rest unread.  A first
\* byte 0x00-0x7f is a complete value, a positive fixint; 0x80-0x8f starts a
\* map; an empty body gives no value.
DecodeMsgpackValue(body) ==
    IF body.form = "empty" THEN [some |-> FALSE, v |-> NotAMap("null")]
    ELSE IF FirstByte(body) <= 127 THEN [some |-> TRUE, v |-> NotAMap("int")]
    ELSE [some |-> TRUE, v |-> body.req]

\* main.rs:134: decode_msgpack(body).or_else(decode_json).unwrap_or(Null),
\* for the bodies decode_msgpack_value gives no value for: of the bodies of
\* the model the empty one, which neither decoder accepts.
DecodeText(body) == CASE body.form = "empty" -> NotAMap("null")

\* the request panics in its handler: a bus.replay that reaches where_regex
\* (handlers.rs:198-199, query.rs:430-564) with a text the slice panics on
Panics(req, mode) ==
    /\ ~VersionMissing(mode, req.v)
    /\ ProtocolVersion(mode, req.v) = 1
    /\ req.op = "bus.replay"
    /\ ~(mode = "strict" /\ req.args.store = NoStore)
    /\ req.args.plan # NoPlan
    /\ StoreFound(StoreArg(req.args))
    /\ req.args.plan.kind = "unary"
    /\ req.args.plan.op = "where_regex"
    /\ WhereRegexPanics(EvalPlan(req.args.plan.child), req.args.plan.params)

\* the topic whose buffer the request reads through Store::get_recent
\* (handlers.rs:139, query.rs:491), "" when it reads none
ReadTopic(req, mode) ==
    IF VersionMissing(mode, req.v) \/ ProtocolVersion(mode, req.v) # 1
       THEN ""
    ELSE IF req.op = "bus.get_recent" /\ StoreFound(StoreArg(req.args))
       THEN req.args.topic
    ELSE IF /\ req.op = "bus.replay"
            /\ req.args.plan # NoPlan
            /\ StoreFound(StoreArg(req.args))
            /\ ~(mode = "strict" /\ req.args.store = NoStore)
       THEN req.args.plan.child.p.topic
    ELSE ""

\* main.rs:165-191: the ROUTER has a message; a message of two or more
\* frames is split into envelope and body and sent to the workers, a shorter
\* one is dropped.
RouterRecv(parts) ==
    /\ Len(router_in) < MaxReqs
    /\ router_in' = Append(router_in, parts)
    /\ task_q' = IF Len(parts) >= 2
                    THEN Append(task_q,
                                [envelope |-> SubSeq(parts, 1, Len(parts) - 1),
                                 body |-> parts[Len(parts)],
                                 id |-> Len(router_in) + 1])
                    ELSE task_q
    /\ UNCHANGED <<cfg_vars, metric_vars, pub_vars, list_vars, store_vars, shard_w, pc, op,
                   ret, hist_vars, validate_mode, validate_payload_bytes,
                   result_q, task, alive, handled, router_out, batch,
                   ingest_log>>

\* main.rs:123-129: task_rx.recv()
WorkerRecv(w) ==
    /\ w \in alive
    /\ pc[w] = "idle"
    /\ task[w] = NoTask
    /\ task_q # <<>>
    /\ task' = [task EXCEPT ![w] = Head(task_q)]
    /\ task_q' = Tail(task_q)
    /\ UNCHANGED <<cfg_vars, metric_vars, pub_vars, list_vars, store_vars, shard_w, pc, op,
                   ret, hist_vars, validate_mode, validate_payload_bytes,
                   result_q, alive, router_in, handled, router_out, batch,
                   ingest_log>>

\* main.rs:131-142: decode the body, call the handler, send the result.  A
\* handler that reads a topic waits for the guard of its shard; a handler
\* that panics unwinds the worker thread, which nothing catches: the thread
\* ends with the task it holds; a bus.publish that is admitted calls
\* Store::publish, whose steps follow.
WorkerHandle(w) ==
    /\ w \in alive
    /\ pc[w] = "idle"
    /\ task[w] # NoTask
    /\ LET body == task[w].body
           dv == DecodeMsgpackValue(body)
           path == IF dv.some THEN "mp" ELSE "text"
           req == IF dv.some THEN dv.v ELSE DecodeText(body)
       IN  /\ ReadTopic(req, validate_mode) \in Topics =>
                 CanGetRecent(ReadTopic(req, validate_mode))
           /\ \E order \in IterOrders :
                LET panics == path = "mp" /\ Panics(req, validate_mode)
                    resp == IF panics THEN [kind |-> "panic", items |-> <<>>]
                            ELSE IF path = "mp"
                               THEN HandleRpcMp(req, validate_mode, order)
                               ELSE HandleRpc(req, validate_mode,
                                              validate_payload_bytes)
                IN  /\ handled' = Append(handled,
                                         [id |-> task[w].id, body |-> body,
                                          path |-> path, kind |-> resp.kind])
                    /\ StoreRead(HandlerGets(req, resp), 0)
                    /\ CASE panics ->
                              /\ alive' = alive \ {w}
                              /\ task' = [task EXCEPT ![w] = NoTask]
                              /\ UNCHANGED <<pc, op, unchecked, result_q>>
                         [] resp = ToPublish ->
                              /\ pc' = [pc EXCEPT ![w] = "seq"]
                              /\ op' = [op EXCEPT ![w] =
                                          Call("rpc", req.args.topic,
                                               <<req.args.payload>>)]
                              /\ unchecked' = (unchecked \/ path = "mp")
                              /\ UNCHANGED <<alive, task, result_q>>
                         [] OTHER ->
                              /\ result_q' =
                                    Append(result_q,
                                           [envelope |-> task[w].envelope,
                                            resp |-> resp,
                                            id |-> task[w].id])
                              /\ task' = [task EXCEPT ![w] = NoTask]
                              /\ UNCHANGED <<alive, pc, op, unchecked>>
    /\ UNCHANGED <<cfg_vars, pub_vars, list_vars, store_vars, shard_w, ret,
                   created, pushed, validate_mode, validate_payload_bytes,
                   task_q, router_in, router_out, batch, ingest_log>>

\* main.rs:202-232: result_rx.try_recv() and router.send_multipart of the
\* envelope frames followed by the response body.
RouterSend ==
    /\ result_q # <<>>
    /\ router_out' = Append(router_out,
                            [frames |-> Head(result_q).envelope
                                        \o <<Head(result_q).resp>>,
                             id |-> Head(result_q).id])
    /\ result_q' = Tail(result_q)
    /\ UNCHANGED <<cfg_vars, metric_vars, pub_vars, list_vars, store_vars, shard_w, pc, op,
                   ret, hist_vars, validate_mode, validate_payload_bytes,
                   task_q, task, alive, router_in, handled, batch,
                   ingest_log>>

\* the requests
PingReq == Request(Num("num", 1), "ping", NoArgs)
PublishReq ==
    Request(Num("num", 1), "bus.publish",
            ReqArgs("messages", "t1", 1, NoLimit, NoPlan))
GetRecentReq ==
    Request(Num("num", 1), "bus.get_recent",
            ReqArgs("messages", "t1", 1, NoLimit, NoPlan))
WhereRegexReq ==
    Request(Num("num", 1), "bus.replay",
            ReqArgs("messages", "", 1, NoLimit,
                    Unary("where_regex",
                          [field |-> "plugin_id", pattern |-> "^A*$",
                           strict |-> TRUE],
                          Get(Args("t1", NoLimit, "", "", NoNum, NoNum,
                                   NoNum)))))

RBodies ==
    {MpBody(PingReq), MpBody(PublishReq), MpBody(GetRecentReq),
     MpBody(WhereRegexReq), MpInt, JsonBody(PingReq), EmptyBody}

\* the messages: a body alone, and a body behind an envelope of one or two
\* frames
RMessages ==
    {<<MpBody(PingReq)>>}
    \cup {<<"c1">> \o <<b>> : b \in RBodies}
    \cup {<<"c2", "">> \o <<b>> : b \in RBodies}

RNext ==
    \/ \E parts \in RMessages : RouterRecv(parts)
    \/ \E w \in Workers : WorkerRecv(w)
    \/ \E w \in Workers : WorkerHandle(w)
    \/ RouterSend
    \/ \E w \in Workers : PublishSeq(w)
    \/ \E w \in Workers : PublishMetaEntry(w)
    \/ \E w \in Workers : PublishTopicsEntry(w)
    \/ \E w \in Workers : PublishWrite(w)
    \/ \E w \in Workers : PublishMetaUpdate(w)

\* The service after start-up.
RSpec == Init /\ [][RNext]_vars

(* ----------------------- claims on the transport ----------------------- *)
\* C22: a body is handled on the binary path only when it is the binary
\* encoding of a map; a body that is the binary encoding of something else,
\* or no binary encoding at all, is decoded as JSON text and handled on the
\* text path: a JSON object gets the answer handle_rpc gives to it, and a
\* body that is no JSON either is handled as the null request (BAD_REQ).
C22_PathByBody ==
    \A i \in 1 .. Len(handled) :
       LET h == handled[i]
       IN  /\ h.path = "mp" => h.body.form = "mp_map"
           /\ h.body.form = "json" =>
                 /\ h.path = "text"
                 /\ h.kind = HandleRpc(h.body.req, validate_mode,
                                       validate_payload_bytes).kind
           /\ h.body.form \in {"mp_int", "empty"} =>
                 (h.path = "text" /\ h.kind = "BAD_REQ")

\* The threads of the service are scheduled: a worker that can take a task,
\* handle it or go on in Store::publish does so, and the RPC loop sends the
\* results it is handed (its poll returns every 100 ms at the latest,
\* main.rs:160-164).  Clients need not send anything.
RFairness ==
    /\ WF_vars(RouterSend)
    /\ \A w \in Workers :
          /\ WF_vars(WorkerRecv(w))
          /\ WF_vars(WorkerHandle(w))
          /\ WF_vars(PublishSeq(w))
          /\ WF_vars(PublishMetaEntry(w))
          /\ WF_vars(PublishTopicsEntry(w))
          /\ WF_vars(PublishWrite(w))
          /\ WF_vars(PublishMetaUpdate(w))

RFairSpec == RSpec /\ RFairness

\* the responses sent for the i-th message received
ResponsesTo(i) == {j \in 1 .. Len(router_out) : router_out[j].id = i}

\* the i-th message received is a request: it has two frames or more
IsRequest(i) == i <= Len(router_in) /\ Len(router_in[i]) >= 2

\* every response sent answers a received request, is the only response to
\* it, and consists of the envelope frames of the request, unchanged and in
\* order, followed by one body frame
ResponsesMatch ==
    \A j \in 1 .. Len(router_out) :
       LET r == router_out[j]
       IN  /\ IsRequest(r.id)
           /\ ResponsesTo(r.id) = {j}
           /\ Len(r.frames) = Len(router_in[r.id])
           /\ SubSeq(r.frames, 1, Len(r.frames) - 1) =
                 SubSeq(router_in[r.id], 1, Len(router_in[r.id]) - 1)

\* C21: every request received with two frames or more is eventually sent
\* exactly one response, made of the request's envelope frames followed by
\* one response body; no response is sent that does not answer a received
\* request.
C21_OneResponsePerRequest ==
    /\ []ResponsesMatch
    /\ \A i \in 1 .. MaxReqs : IsRequest(i) ~> (ResponsesTo(i) # {})

(* ------------------ the workers over a store with events --------------- *)
\* The service with topic "t1" holding one event, as a publish that returned
\* leaves it: no guard is held and no call is in progress.  The plugin_id of
\* the event is "A" or a text of 1025 bytes whose byte 1024 lies inside a
\* character.
WInit ==
    /\ maxlen = MaxStoreMaxlen
    /\ topic_max = CfgTopicMax
    /\ stores = MpStateNew(maxlen, topic_max)
    /\ shard_of = [t \in Topics |-> t]
    /\ next_seq = 2
    /\ \E id \in {"A", LongText} :
          /\ topics = [t \in {"t1"} |->
                         <<MkEvent(1, NowTs, StoreName, "t1",
                                   Payload(id, "", 5, NoTs, ""))>>]
          /\ pushed = [t \in Topics |-> IF t = "t1" THEN topics[t] ELSE <<>>]
          /\ created = topics["t1"]
    /\ meta = [t \in {"t1"} |-> [count_total |-> 1]]
    /\ read_cache = EmptyMap
    /\ shard_w = [s \in Shards |-> NoThread]
    /\ pc = [t \in Threads |-> "idle"]
    /\ op = [t \in Threads |-> NoOp]
    /\ ret = [t \in Threads |-> NoRet]
    /\ unchecked = FALSE
    /\ pub_enabled = TRUE
    /\ pub_rx = <<>>
    /\ pub_sent = <<>>
    /\ acked = <<>>
    /\ xs = <<>>
    /\ ys = <<>>
    /\ metrics = MetricsAfter(next_seq - 1)
    /\ calls = NoCalls
    /\ RpcInit

WSpec == WInit /\ [][RNext]_vars

WFairSpec == WSpec /\ RFairness

\* the tasks whose handler panicked
Panicked == {handled[i].id : i \in {k \in 1 .. Len(handled) :
                                       handled[k].kind = "panic"}}

\* C28: a panic raised while a request is handled ends neither the worker
\* nor the process: the worker threads that are alive never get fewer, and
\* the request is still sent one response with its envelope.
C28_PanicIsCaught ==
    /\ [](alive = Workers)
    /\ []ResponsesMatch
    /\ \A i \in 1 .. MaxReqs : (i \in Panicked) ~> (ResponsesTo(i) # {})


(* --------------------------- the ingest loop --------------------------- *)
\* The ingest thread of main.rs:56-111 with the checks of handle_snapshot
\* (main.rs:237-306) and handle_delta_batch (main.rs:308-374) on what it
\* receives.  An item of a delta batch and a record of a snapshot are kept
\* by what the checks read: whether it is a JSON object, the store and the
\* topic it names (a field that is absent reads as its default, which is a
\* valid name; "" is a topic given as the empty string), the length of the
\* MessagePack encoding that is compared with payload_max_bytes, and the
\* index fields of its payload.
MaxIngest == 3

MaxBatch == 2

\* `{"value": payload}`, the wrapping of a payload that is no object
\* (main.rs:334-338): none of the index fields is in it.
Wrapped == Payload("", "", 0, NoTs, "")

Item(object, store, topic, bytes, payload_object) ==
    [object |-> object, store |-> store, topic |-> topic, bytes |-> bytes,
     payload_object |-> payload_object,
     payload |-> IF payload_object THEN Payload("A", "", 5, NoTs, "")
                 ELSE Wrapped]

\* (ItemSkippedUnsized: the size of the payload is never looked at.)
ItemSkippedUnsized(it, validate) ==
    \/ ~it.object
    \/ it.topic = ""
    \/ TopicLen(it.topic) > TopicNameMaxLen
    \/ ~StoreFound(it.store)
    \/ TopicCapReached(it.topic)

\* handle_delta_batch, the `continue`s of one turn of the loop:
\* main.rs:320-323 (no object), 330-332 (topic), 340-348 (size, under the
\* flag), 358 (no such store), 352-355 (a new topic at the cap).
ItemSkipped(it, validate) ==
    \/ ~it.object
    \/ it.topic = ""
    \/ TopicLen(it.topic) > TopicNameMaxLen
    \/ validate /\ it.bytes > PayloadMaxBytes
    \/ ~StoreFound(it.store)
    \/ TopicCapReached(it.topic)

\* handle_snapshot, the `continue`s of the loop over the items
\* (main.rs:259-273): what is left is `records`.
RECURSIVE Records(_, _)
Records(items, validate) ==
    IF items = <<>> THEN <<>>
    ELSE LET it == Head(items)
             rest == Records(Tail(items), validate)
         IN  IF ~it.object \/ (validate /\ it.bytes > PayloadMaxBytes)
                THEN rest
                ELSE <<it.payload>> \o rest

\* handle_snapshot, the `return`s: main.rs:253-255 (topic), 275 (no such
\* store), 276-279 (a new topic at the cap).
SnapshotSkipped(msg) ==
    \/ msg.topic = ""
    \/ TopicLen(msg.topic) > TopicNameMaxLen
    \/ ~StoreFound(msg.store)
    \/ TopicCapReached(msg.topic)

Logged(what, input, verdict) ==
    [what |-> what, input |-> input, verdict |-> verdict]

\* main.rs:85-110 and 318: a message of kind delta_batch is received and
\* its items are taken.
IngestRecvBatch(items) ==
    /\ pc[Ingest] = "idle"
    /\ batch = <<>>
    /\ Len(ingest_log) + Len(items) <= MaxIngest
    /\ batch' = items
    /\ UNCHANGED <<cfg_vars, metric_vars, pub_vars, list_vars, store_vars, shard_w, pc,
                   op, ret, hist_vars, validate_mode, validate_payload_bytes,
                   task_q, result_q, task, alive, router_in, handled,
                   router_out, ingest_log>>

\* main.rs:319-373: one turn of the loop of handle_delta_batch, up to the
\* call of Store::publish.
DeltaItem ==
    /\ pc[Ingest] = "idle"
    /\ batch # <<>>
    /\ LET it == Head(batch)
       IN  IF ItemSkipped(it, validate_payload_bytes)
              THEN /\ ingest_log' =
                         Append(ingest_log, Logged("item", it, "rejected"))
                   /\ UNCHANGED <<pc, op, ret>>
              ELSE /\ ingest_log' =
                         Append(ingest_log, Logged("item", it, "accepted"))
                   /\ pc' = [pc EXCEPT ![Ingest] = "seq"]
                   /\ op' = [op EXCEPT ![Ingest] =
                               Call("delta", it.topic, <<it.payload>>)]
                   /\ ret' = [ret EXCEPT ![Ingest] = NoRet]
    /\ batch' = Tail(batch)
    /\ UNCHANGED <<cfg_vars, metric_vars, pub_vars, list_vars, store_vars, shard_w,
                   hist_vars, validate_mode, validate_payload_bytes, task_q,
                   result_q, task, alive, router_in, handled, router_out>>

\* main.rs:85-107 and 237-289: a message of kind snapshot is received and
\* handled, up to the call of Store::publish or Store::replace_topic.  In
\* mode "append" with no record left there is no call.
Snapshot(msg) ==
    /\ pc[Ingest] = "idle"
    /\ batch = <<>>
    /\ Len(ingest_log) < MaxIngest
    /\ LET records == Records(msg.items, validate_payload_bytes)
       IN  IF SnapshotSkipped(msg)
              THEN /\ ingest_log' =
                         Append(ingest_log,
                                Logged("snapshot", msg, "rejected"))
                   /\ UNCHANGED <<pc, op, ret>>
              ELSE /\ ingest_log' =
                         Append(ingest_log,
                                Logged("snapshot", msg, "accepted"))
                   /\ IF msg.mode = "append" /\ records = <<>>
                         THEN UNCHANGED <<pc, op, ret>>
                         ELSE /\ pc' = [pc EXCEPT ![Ingest] =
                                          IF msg.mode = "append" THEN "seq"
                                          ELSE "r_entry"]
                              /\ op' = [op EXCEPT ![Ingest] =
                                          Call(msg.mode, msg.topic, records)]
                              /\ ret' = [ret EXCEPT ![Ingest] = NoRet]
    /\ UNCHANGED <<cfg_vars, metric_vars, pub_vars, list_vars, store_vars, shard_w,
                   hist_vars, validate_mode, validate_payload_bytes, task_q,
                   result_q, task, alive, router_in, handled, router_out,
                   batch>>

\* The service after start-up (main.rs:28-53), with either setting of
\* NEKO_MESSAGE_PLANE_VALIDATE_PAYLOAD_BYTES and buffers of MaxStoreMaxlen
\* events.
IInit ==
    /\ maxlen = MaxStoreMaxlen
    /\ topic_max = CfgTopicMax
    /\ stores = MpStateNew(maxlen, topic_max)
    /\ shard_of \in {f \in [Topics -> Shards] : f["t1"] = "t1"}
    /\ next_seq = 1
    /\ topics = EmptyMap
    /\ meta = EmptyMap
    /\ read_cache = EmptyMap
    /\ shard_w = [s \in Shards |-> NoThread]
    /\ pc = [t \in Threads |-> "idle"]
    /\ op = [t \in Threads |-> NoOp]
    /\ ret = [t \in Threads |-> NoRet]
    /\ created = <<>>
    /\ pushed = [t \in Topics |-> <<>>]
    /\ unchecked = FALSE
    /\ pub_enabled = TRUE
    /\ pub_rx = <<>>
    /\ pub_sent = <<>>
    /\ acked = <<>>
    /\ xs = <<>>
    /\ ys = <<>>
    /\ metrics = MetricsAfter(next_seq - 1)
    /\ calls = NoCalls
    /\ validate_mode = "strict"
    /\ validate_payload_bytes \in BOOLEAN
    /\ task_q = <<>>
    /\ result_q = <<>>
    /\ task = [w \in Workers |-> NoTask]
    /\ alive = Workers
    /\ router_in = <<>>
    /\ handled = <<>>
    /\ router_out = <<>>
    /\ batch = <<>>
    /\ ingest_log = <<>>

IItems ==
    {Item(TRUE, "messages", "t1", 100, TRUE),
     Item(TRUE, "messages", "t2", 100, FALSE),
     Item(FALSE, "messages", "t1", 100, TRUE),
     Item(TRUE, "nostore", "t1", 100, TRUE),
     Item(TRUE, "messages", "", 100, TRUE),
     Item(TRUE, "messages", LongTopic, 100, TRUE),
     Item(TRUE, "messages", "t1", PayloadMaxBytes + 1, TRUE)}

Snap(store, topic, items, mode) ==
    [store |-> store, topic |-> topic, items |-> items, mode |-> mode]

ISnapshots ==
    {Snap("messages", topic, items, mode) :
        topic \in Topics, mode \in {"replace", "append"},
        items \in {<<>>,
                   <<Item(FALSE, "messages", "t1", 100, TRUE),
                     Item(TRUE, "messages", "t1", PayloadMaxBytes + 1, TRUE),
                     Item(TRUE, "messages", "t1", 100, TRUE)>>}}
    \cup {Snap(st[1], st[2], <<Item(TRUE, "messages", "t1", 100, TRUE)>>,
               "replace") :
             st \in {<<"nostore", "t1">>, <<"messages", "">>,
                     <<"messages", LongTopic>>}}

INext ==
    \/ \E items \in SeqsUpTo(IItems, MaxBatch) \ {<<>>} :
          IngestRecvBatch(items)
    \/ DeltaItem
    \/ \E msg \in ISnapshots : Snapshot(msg)
    \/ PublishSeq(Ingest)
    \/ PublishMetaEntry(Ingest)
    \/ PublishTopicsEntry(Ingest)
    \/ PublishWrite(Ingest)
    \/ PublishMetaUpdate(Ingest)
    \/ ReplaceTopicsEntry(Ingest)
    \/ ReplaceClear(Ingest)
    \/ ReplaceMetaInsert(Ingest)
    \/ ReplaceLoop(Ingest)

ISpec == IInit /\ [][INext]_vars


\* The reasons of claim C29 for rejecting a delta item, read before the step.
ListedItem(it) ==
    \/ ~it.object
    \/ ~StoreFound(it.store)
    \/ it.topic = ""
    \/ TopicLen(it.topic) > TopicNameMaxLen
    \/ TopicCapReached(it.topic)
    \/ validate_payload_bytes /\ it.bytes > PayloadMaxBytes

\* The reasons of claim C29 for rejecting a snapshot.
ListedSnapshot(msg) ==
    \/ ~StoreFound(msg.store)
    \/ msg.topic = ""
    \/ TopicLen(msg.topic) > TopicNameMaxLen
    \/ TopicCapReached(msg.topic)

\* The payloads of the items of a snapshot that claim C29 does not reject.
KeptPayloads(items) ==
    LET keep == {i \in 1 .. Len(items) :
                   /\ items[i].object
                   /\ ~(validate_payload_bytes
                        /\ items[i].bytes > PayloadMaxBytes)}
        RECURSIVE Take(_)
        Take(i) == IF i > Len(items) THEN <<>>
                   ELSE IF i \in keep THEN <<items[i].payload>> \o Take(i + 1)
                   ELSE Take(i + 1)
    IN  Take(1)

IngestStepC29 ==
    Len(ingest_log') = Len(ingest_log) + 1 =>
       LET e == ingest_log'[Len(ingest_log')]
           listed == IF e.what = "item" THEN ListedItem(e.input)
                     ELSE ListedSnapshot(e.input)
       IN  /\ listed <=> e.verdict = "rejected"
           /\ e.verdict = "rejected" =>
                 /\ UNCHANGED <<store_vars, shard_w, hist_vars, pub_vars,
                                result_q, router_out, op, ret>>
                 /\ pc'[Ingest] = "idle"
                 /\ e.what = "item" => batch' = Tail(batch)
           /\ e.verdict = "accepted" =>
                 \/ /\ pc'[Ingest] = "idle"
                    /\ e.what = "snapshot"
                    /\ e.input.mode = "append"
                    /\ KeptPayloads(e.input.items) = <<>>
                 \/ /\ pc'[Ingest] # "idle"
                    /\ op'[Ingest].items =
                          IF e.what = "item" THEN <<e.input.payload>>
                          ELSE KeptPayloads(e.input.items)

\* C29: an ingest item or snapshot with one of the listed defects (unknown
\* store, empty or oversize topic, new topic at the cap, non-object item,
\* oversize item while validation is enabled) is rejected; rejecting changes
\* no store state and emits no pub frame and no response, and leaves the
\* ingest thread at the rest of the batch and the next message; what is
\* accepted goes to the store without the rejected items.
C29_RejectedIsInert == [][IngestStepC29]_vars

\* A delta item was rejected, a snapshot arrived without its store, and the
\* item after them is being published.
C29_Witness ==
    /\ Len(ingest_log) = 3
    /\ ingest_log[1].what = "item" /\ ingest_log[1].verdict = "rejected"
    /\ ingest_log[2].what = "snapshot" /\ ingest_log[2].verdict = "rejected"
    /\ ingest_log[3].what = "item" /\ ingest_log[3].verdict = "accepted"
    /\ pc[Ingest] = "update_read_cache"
    /\ Len(created) = 1
    /\ pub_sent = <<>>


\* The ingest thread runs: a step of it that can be taken is taken
\* (main.rs:58, thread::spawn; the loop of main.rs:70-110 never ends).
IFairness ==
    /\ WF_vars(DeltaItem)
    /\ WF_vars(PublishSeq(Ingest))
    /\ WF_vars(PublishMetaEntry(Ingest))
    /\ WF_vars(PublishTopicsEntry(Ingest))
    /\ WF_vars(PublishWrite(Ingest))
    /\ WF_vars(PublishMetaUpdate(Ingest))
    /\ WF_vars(ReplaceTopicsEntry(Ingest))
    /\ WF_vars(ReplaceClear(Ingest))
    /\ WF_vars(ReplaceMetaInsert(Ingest))
    /\ WF_vars(ReplaceLoop(Ingest))

IFairSpec == ISpec /\ IFairness

\* The n-th thing the ingest thread looked at is an accepted snapshot, and
\* nothing was looked at after it.
SnapshotTaken(n) ==
    /\ Len(ingest_log) = n
    /\ ingest_log[n].what = "snapshot"
    /\ ingest_log[n].verdict = "accepted"

\* The events made of the last k payloads handed to the store.
NewEvents(k) == LastN(created, k)

PayloadsOf(evs) == [i \in 1 .. Len(evs) |-> evs[i].payload]

\* The snapshot taken as n-th is stored as claim C30 says: the events of its
\* accepted items were created in item order; in mode replace they are all
\* that was pushed to the topic since it was cleared, in mode append they
\* were pushed after what the topic held; the topic holds the last `maxlen`
\* of what was pushed; their frames are the last ones sent, in item order.
SnapshotStored(n) ==
    LET msg == ingest_log[n].input
        kept == KeptPayloads(msg.items)
        k == Len(kept)
    IN  /\ pc[Ingest] = "idle"
        /\ Len(created) >= k
        /\ PayloadsOf(NewEvents(k)) = kept
        /\ \A i \in 1 .. k : NewEvents(k)[i].topic = msg.topic
        /\ Len(pushed[msg.topic]) >= k
        /\ LastN(pushed[msg.topic], k) = NewEvents(k)
        /\ msg.mode # "append" => pushed[msg.topic] = NewEvents(k)
        /\ Buffer(msg.topic) =
              LastN(pushed[msg.topic], Min(maxlen, Len(pushed[msg.topic])))
        /\ pub_enabled =>
              /\ Len(pub_sent) >= k
              /\ LastN(pub_sent, k) = Frames(NewEvents(k))

\* C30: an accepted snapshot in mode replace leaves the topic holding exactly
\* the events of its accepted items, in item order, and none of the earlier
\* events; in mode append the events of the accepted items are added after
\* the earlier ones, which are kept up to maxlen; in both modes one pub
\* frame per stored event is sent, in item order, while publishing is on.
C30_SnapshotStored ==
    \A n \in 1 .. MaxIngest :
       SnapshotTaken(n) ~> (SnapshotTaken(n) /\ SnapshotStored(n))


(* ------------------------------ MpState -------------------------------- *)
\* cli.store_maxlen and cli.topic_max (main.rs:38-39) around the values
\* where a quotient of a profile reaches its floor.
MaxlenCases ==
    {0, 1, 19999, 20000, 20001, 20002, 20004, 20010, 20020, 20040, 20041,
     100000}

TopicMaxCases == {0, 1, 1999, 2000, 2001, 2002, 2004, 2010, 2011, 100000}

MNames == RegisteredStores \cup {"", "nostore", "Messages"}

\* main.rs:49: MpState::new(maxlen, topic_max) with any configured pair.
MInit ==
    /\ maxlen \in MaxlenCases
    /\ topic_max \in TopicMaxCases
    /\ stores = MpStateNew(maxlen, topic_max)
    /\ shard_of \in {f \in [Topics -> Shards] : f["t1"] = "t1"}
    /\ next_seq = 1
    /\ topics = EmptyMap
    /\ meta = EmptyMap
    /\ read_cache = EmptyMap
    /\ shard_w = [s \in Shards |-> NoThread]
    /\ pc = [t \in Threads |-> "idle"]
    /\ op = [t \in Threads |-> NoOp]
    /\ ret = [t \in Threads |-> NoRet]
    /\ created = <<>>
    /\ pushed = [t \in Topics |-> <<>>]
    /\ unchecked = FALSE
    /\ pub_enabled = TRUE
    /\ pub_rx = <<>>
    /\ pub_sent = <<>>
    /\ acked = <<>>
    /\ xs = <<>>
    /\ ys = <<>>
    /\ metrics = MetricsAfter(next_seq - 1)
    /\ calls = NoCalls
    /\ RpcInit

\* types.rs:292-294: MpState::store(name) = stores.get(name).
StoreLookup(t, name) ==
    /\ ret' = [ret EXCEPT ![t] =
                 IF name \in DOMAIN stores
                    THEN [kind |-> "store", items |-> <<name, stores[name]>>]
                    ELSE [kind |-> "no_store", items |-> <<name>>]]
    /\ UNCHANGED <<cfg_vars, metric_vars, pub_vars, list_vars, rpc_vars, store_vars,
                   shard_w, pc, op, hist_vars>>

MNext == \E name \in MNames : StoreLookup(QWorker, name)

MSpec == MInit /\ [][MNext]_vars

\* max(a, b) and the capacities claim C31 gives to a store
Max2(a, b) == IF a >= b THEN a ELSE b

Profile(m, t) == [maxlen |-> m, topic_max |-> t]

ClaimedStores ==
    [messages |-> Profile(maxlen, topic_max),
     events |-> Profile(Max2(maxlen \div 2, 10000),
                        Max2(topic_max \div 2, 1000)),
     lifecycle |-> Profile(Max2(maxlen \div 20, 1000),
                           Max2(topic_max \div 4, 500)),
     runs |-> Profile(Max2(maxlen \div 40, 500),
                      Max2(topic_max \div 10, 200)),
     export |-> Profile(Max2(maxlen \div 4, 5000),
                        Max2(topic_max \div 4, 500)),
     memory |-> Profile(Max2(maxlen \div 10, 2000),
                        Max2(topic_max \div 2, 1000))]

\* C31: for every configured (maxlen, topic_max) the state holds exactly the
\* six stores messages, events, lifecycle, runs, export and memory with the
\* capacities of their profiles (integer division, floors 10000/1000,
\* 1000/500, 500/200, 5000/500, 2000/1000); store(name) finds these names
\* and answers none for any other; no operation adds or removes a store.
C31_SixStores ==
    /\ stores = ClaimedStores
    /\ DOMAIN stores = RegisteredStores
    /\ Cardinality(DOMAIN stores) = 6
    /\ ret[QWorker].kind = "store" =>
          /\ ret[QWorker].items[1] \in RegisteredStores
          /\ ret[QWorker].items[2] = ClaimedStores[ret[QWorker].items[1]]
    /\ ret[QWorker].kind = "no_store" =>
          ret[QWorker].items[1] \notin RegisteredStores

\* With maxlen 20041 and topic_max 2011 every quotient is above its floor,
\* and the store `runs` was looked up.
C31_Witness ==
    /\ maxlen = 20041
    /\ topic_max = 2011
    /\ ret[QWorker].kind = "store"
    /\ ret[QWorker].items = <<"runs", Profile(501, 201)>>
    /\ stores["events"] = Profile(10020, 1005)


(* --------------------------- extract_index ----------------------------- *)
\* A payload as JSON: whether it is an object and, for each key the
\* extractor reads, what is under it.  A key is absent, or holds a string,
\* a number or a value of another type (null, bool, array, object).  A
\* string under `priority` or `timestamp` is kept by what str::parse makes
\* of it: an i64 or a failure for `priority`; a finite f64, a non-finite
\* f64 ("nan", "inf", "1e999") or a failure for `timestamp`.  An integer
\* above i64::MAX is "big".
Absent == [t |-> "absent"]

Other == [t |-> "other"]

Str(s) == [t |-> "str", s |-> s]

JInt(v) == [t |-> "int", v |-> v]

JFloat(v) == [t |-> "float", v |-> v]

BigUint == [t |-> "big"]

StrParsed(v) == [t |-> "str", parse |-> "ok", v |-> v]

StrNonFinite == [t |-> "str", parse |-> "nonfinite"]

StrBad == [t |-> "str", parse |-> "err"]

Null == [t |-> "null"]

IdKeys ==
    <<"message_id", "event_id", "lifecycle_id", "id", "task_id", "run_id">>

RawKeys ==
    {"plugin_id", "source", "kind", "type", "message_type", "priority",
     "timestamp", "time", "message_id", "event_id", "lifecycle_id", "id",
     "task_id", "run_id"}

\* `{}`
EmptyObject == [object |-> TRUE, at |-> [k \in RawKeys |-> Absent]]

With(raw, k, v) == [raw EXCEPT !.at[k] = v]

\* a payload that is no object
Scalar == [object |-> FALSE, at |-> [k \in RawKeys |-> Absent]]

\* `.and_then(|v| v.as_str()).filter(|s| !s.is_empty())` (utils.rs:88-95),
\* then the value json! makes of the Option.
NonEmptyStr(v) == IF v.t = "str" /\ v.s # "" THEN Str(v.s) ELSE Null

\* utils.rs:97-104: `priority`.
PriorityOf(v) ==
    CASE v.t = "int" -> v.v
      [] v.t = "str" -> IF v.parse = "ok" THEN v.v ELSE 0
      [] OTHER -> 0

\* utils.rs:121-129 and 152: `timestamp`, or `time` when the key
\* `timestamp` is absent; a number, a string that parses as f64, otherwise
\* default_ts; json! turns an f64 that is not finite into null.
TimestampOf(at, default_ts) ==
    LET v == IF at["timestamp"].t # "absent" THEN at["timestamp"]
             ELSE at["time"]
    IN  CASE v.t \in {"int", "float"} -> [t |-> "num", v |-> v.v]
          [] v.t = "str" /\ v.parse = "ok" -> [t |-> "num", v |-> v.v]
          [] v.t = "str" /\ v.parse = "nonfinite" -> Null
          [] OTHER -> [t |-> "num", v |-> default_ts]

\* utils.rs:131-144: the first key of IdKeys with a non-empty string.
RECURSIVE RecordId(_, _)
RecordId(at, i) ==
    IF i > Len(IdKeys) THEN Null
    ELSE IF NonEmptyStr(at[IdKeys[i]]) # Null
            THEN NonEmptyStr(at[IdKeys[i]])
            ELSE RecordId(at, i + 1)

\* utils.rs:72-155: extract_index(payload, default_ts).
ExtractIndexJson(raw, default_ts) ==
    IF ~raw.object
       THEN [plugin_id |-> Null, source |-> Null, priority |-> 0,
             kind |-> Null, type |-> Null,
             timestamp |-> [t |-> "num", v |-> default_ts], id |-> Null]
       ELSE [plugin_id |-> NonEmptyStr(raw.at["plugin_id"]),
             source |-> NonEmptyStr(raw.at["source"]),
             priority |-> PriorityOf(raw.at["priority"]),
             kind |-> NonEmptyStr(raw.at["kind"]),
             type |-> IF NonEmptyStr(raw.at["type"]) # Null
                      THEN NonEmptyStr(raw.at["type"])
                      ELSE NonEmptyStr(raw.at["message_type"]),
             timestamp |-> TimestampOf(raw.at, default_ts),
             id |-> RecordId(raw.at, 1)]

\* What is under the keys of a payload in the runs of XSpec.
StrForms(s) == {Absent, Str(""), Str(s), Other}

PriorityForms ==
    {Absent, JInt(7), JInt(-1), JFloat(2), BigUint, StrParsed(5), StrBad, Other}

TimestampForms(b) ==
    {Absent, JInt(b), JFloat(b + 1), StrParsed(b + 2), StrNonFinite, StrBad,
     Other}

XPayloads ==
    {Scalar}
    \cup {With(With(With(EmptyObject, "plugin_id", a), "source", b), "kind", c) :
            a \in StrForms("A"), b \in StrForms("S"), c \in StrForms("K")}
    \cup {With(With(EmptyObject, "type", a), "message_type", b) :
            a \in StrForms("T"), b \in StrForms("M")}
    \cup {With(EmptyObject, "priority", a) : a \in PriorityForms}
    \cup {With(With(EmptyObject, "timestamp", a), "time", b) :
            a \in TimestampForms(10), b \in TimestampForms(20)}
    \cup {[object |-> TRUE,
           at |-> [k \in RawKeys |->
                     IF k \in DOMAIN ids THEN ids[k] ELSE Absent]] :
            ids \in [{IdKeys[i] : i \in 1 .. Len(IdKeys)} ->
                       {Absent, Str(""), Str("x")}]}

\* One call extract_index(payload, ts), as Store::publish makes it
\* (types.rs:88-94), is about to happen.
XInit ==
    /\ maxlen = MaxStoreMaxlen
    /\ topic_max = CfgTopicMax
    /\ stores = MpStateNew(maxlen, topic_max)
    /\ shard_of \in {f \in [Topics -> Shards] : f["t1"] = "t1"}
    /\ next_seq = 1
    /\ topics = EmptyMap
    /\ meta = EmptyMap
    /\ read_cache = EmptyMap
    /\ shard_w = [s \in Shards |-> NoThread]
    /\ pc = [t \in Threads |-> "idle"]
    /\ \E raw \in XPayloads, ts \in {NowTs, NowTs + 1} :
          op = [t \in Threads |->
                  IF t = QWorker
                     THEN Call("extract", "",
                               <<[payload |-> raw, ts |-> ts]>>)
                     ELSE NoOp]
    /\ ret = [t \in Threads |-> NoRet]
    /\ created = <<>>
    /\ pushed = [t \in Topics |-> <<>>]
    /\ unchecked = FALSE
    /\ pub_enabled = TRUE
    /\ pub_rx = <<>>
    /\ pub_sent = <<>>
    /\ acked = <<>>
    /\ xs = <<>>
    /\ ys = <<>>
    /\ metrics = MetricsAfter(next_seq - 1)
    /\ calls = NoCalls
    /\ RpcInit

\* types.rs:94: `let idx = extract_index(&payload, ts)`.
Extract(t) ==
    /\ ret[t] = NoRet
    /\ op[t].via = "extract"
    /\ ret' = [ret EXCEPT ![t] =
                 [kind |-> "index",
                  items |-> <<ExtractIndexJson(op[t].items[1].payload,
                                               op[t].items[1].ts)>>]]
    /\ UNCHANGED <<cfg_vars, metric_vars, pub_vars, list_vars, rpc_vars, store_vars,
                   shard_w, pc, op, hist_vars>>

XNext == Extract(QWorker)

XSpec == XInit /\ [][XNext]_vars

\* The payload and the ts of the call, and the index it returned.
XRaw == op[QWorker].items[1].payload

XAt(k) == IF XRaw.object THEN XRaw.at[k] ELSE Absent

XTs == op[QWorker].items[1].ts

XIndex == ret[QWorker].items[1]

\* the string field claim C32 expects: null when missing or empty
ClaimedStr(v) == IF v.t = "str" /\ v.s # "" THEN Str(v.s) ELSE Null

ClaimedId ==
    LET found == {i \in 1 .. Len(IdKeys) : ClaimedStr(XAt(IdKeys[i])) # Null}
    IN  IF found = {} THEN Null
        ELSE ClaimedStr(XAt(IdKeys[CHOOSE i \in found :
                                      \A j \in found : i <= j]))

\* The priority is the integer value, or the parsed digit string, and
\* otherwise 0; the integer above i64::MAX is not 0.
PriorityAsClaimed ==
    LET v == XAt("priority")
    IN  CASE v.t = "int" -> XIndex.priority = v.v
          [] v.t = "big" -> XIndex.priority # 0
          [] v.t = "str" /\ v.parse = "ok" -> XIndex.priority = v.v
          [] OTHER -> XIndex.priority = 0

\* The timestamp is read from `timestamp`, from `time` when that key is
\* missing, and is the event's ts when no number can be had from it.
TimestampAsClaimed ==
    LET v == IF XAt("timestamp").t # "absent" THEN XAt("timestamp")
             ELSE XAt("time")
    IN  CASE v.t \in {"int", "float"} ->
                XIndex.timestamp = [t |-> "num", v |-> v.v]
          [] v.t = "str" /\ v.parse = "ok" ->
                XIndex.timestamp = [t |-> "num", v |-> v.v]
          [] v.t = "str" /\ v.parse = "nonfinite" ->
                XIndex.timestamp.t = "num"
          [] OTHER -> XIndex.timestamp = [t |-> "num", v |-> XTs]

\* C32: the index of an event has exactly the keys plugin_id, source,
\* priority, kind, type, timestamp and id, for every payload; missing or
\* empty string fields are null, priority is the integer value or the
\* parsed digit string and otherwise 0, type falls back to message_type,
\* timestamp falls back to time and then to the event's ts, id is the first
\* non-empty string among message_id, event_id, lifecycle_id, id, task_id,
\* run_id.
C32_IndexWellFormed ==
    ret[QWorker].kind = "index" =>
       /\ DOMAIN XIndex = {"plugin_id", "source", "priority", "kind", "type",
                           "timestamp", "id"}
       /\ XIndex.plugin_id = ClaimedStr(XAt("plugin_id"))
       /\ XIndex.source = ClaimedStr(XAt("source"))
       /\ XIndex.kind = ClaimedStr(XAt("kind"))
       /\ XIndex.type = IF ClaimedStr(XAt("type")) # Null
                        THEN ClaimedStr(XAt("type"))
                        ELSE ClaimedStr(XAt("message_type"))
       /\ PriorityAsClaimed
       /\ TimestampAsClaimed
       /\ XIndex.id = ClaimedId


(* -------------------------- response envelope -------------------------- *)
\* The error code of what a handler returns: rpc_err(req_id, code, ..) on
\* the binary path, the "error.code" of the literal on the text path
\* ("too many topics" is a BAD_ARGS, handlers.rs:633); "" when the handler
\* returns a result.
ErrorCode(resp) ==
    CASE resp.kind \in {"BAD_REQ", "BAD_VERSION", "BAD_STORE", "BAD_ARGS",
                        "UNKNOWN_OP"} -> resp.kind
      [] resp.kind = "too_many_topics" -> "BAD_ARGS"
      [] OTHER -> ""

\* rpc.rs:23-47, rpc_ok and rpc_err, and the literals of handle_rpc
\* (handlers.rs:470-673): the envelope around a result or an error.
\* `result` says whether a result is carried, `error` is the code or "".
RpcEnvelope(req_id, resp) ==
    [v |-> 1, req_id |-> req_id, ok |-> ErrorCode(resp) = "",
     result |-> ErrorCode(resp) = "", error |-> ErrorCode(resp)]

\* handlers.rs:21 and 475-478: the req_id a handler reads from the value it
\* is given: the string under "req_id" of a map, otherwise "".
ReqId(req) ==
    IF req.form = "map" /\ req.req_id.t = "str" THEN req.req_id.s ELSE ""

WithReqId(req, rid) == [req_id |-> rid] @@ req

\* main.rs:131-142, for one body: decode it, call the handler of its path
\* and make the response body.  A bus.publish that is admitted calls
\* Store::publish first, whose steps follow.
WorkerAnswer(t, body) ==
    /\ pc[t] = "idle"
    /\ ret[t] = NoRet
    /\ \E order \in IterOrders :
         LET dv == DecodeMsgpackValue(body)
             path == IF dv.some THEN "mp" ELSE "text"
             req == IF dv.some THEN dv.v ELSE DecodeText(body)
             resp == IF path = "mp"
                     THEN HandleRpcMp(req, validate_mode, order)
                     ELSE HandleRpc(req, validate_mode,
                                    validate_payload_bytes)
         IN  /\ StoreRead(HandlerGets(req, resp), 0)
             /\ IF resp = ToPublish
                THEN /\ ret' = [ret EXCEPT ![t] =
                                  [kind |-> "publish", items |-> <<>>,
                                   req |-> body, path |-> path]]
                     /\ pc' = [pc EXCEPT ![t] = "seq"]
                     /\ op' = [op EXCEPT ![t] =
                                 Call("rpc", req.args.topic,
                                      <<req.args.payload>>)]
                     /\ unchecked' = (unchecked \/ path = "mp")
                ELSE /\ ret' = [ret EXCEPT ![t] =
                                  [kind |-> "answer",
                                   items |-> <<RpcEnvelope(ReqId(req), resp)>>,
                                   req |-> body, path |-> path]]
                     /\ UNCHANGED <<pc, op, unchecked>>
    /\ UNCHANGED <<cfg_vars, pub_vars, list_vars, rpc_vars, store_vars,
                   shard_w, created, pushed>>

EReqIds == {Absent, Str(""), Str("r1"), Other}

EBodies ==
    {MpBody(WithReqId(req, rid)) :
        req \in {r \in HRequests : r.form = "map"}, rid \in EReqIds}
    \cup {JsonBody(WithReqId(req, rid)) :
            req \in {r \in HRequests : r.form = "map"}, rid \in EReqIds}
    \cup {MpInt, EmptyBody}

ENext ==
    \/ /\ ret[QWorker] = NoRet
       /\ \E body \in EBodies : WorkerAnswer(QWorker, body)
    \/ PublishSeq(QWorker)
    \/ PublishMetaEntry(QWorker)
    \/ PublishTopicsEntry(QWorker)
    \/ PublishWrite(QWorker)
    \/ PublishMetaUpdate(QWorker)

ESpec == HInit /\ [][ENext]_vars

\* the req_id of the request a body holds: its string "req_id", or ""
RequestReqId(body) ==
    IF body.form \in {"mp_map", "json"} /\ body.req.req_id.t = "str"
       THEN body.req.req_id.s
       ELSE ""

\* C33: every response body is an envelope with v = 1 and the req_id of the
\* request it answers ("" when the request has none); ok is true exactly
\* when it carries a result and no error, and false exactly when it carries
\* an error whose code is BAD_REQ, BAD_VERSION, BAD_STORE, BAD_ARGS or
\* UNKNOWN_OP.
C33_Envelope ==
    ret[QWorker].kind = "answer" =>
       LET env == ret[QWorker].items[1]
       IN  /\ env.v = 1
           /\ env.req_id = RequestReqId(ret[QWorker].req)
           /\ env.ok <=> (env.result /\ env.error = "")
           /\ ~env.ok <=>
                 (~env.result
                  /\ env.error \in {"BAD_REQ", "BAD_VERSION", "BAD_STORE",
                                    "BAD_ARGS", "UNKNOWN_OP"})


(* --------------------------- the flush loop ---------------------------- *)
\* The loop at the top of the ingest loop (main.rs:71-84) one PubMsg at a
\* time, with workers queueing meanwhile.  As in PSpec a Store::publish is
\* taken from call to return.  op[Ingest].out holds what this turn of the
\* ingest loop has sent, so its length is the loop counter.
\* (FlushMoreUnbounded: the loop runs until the channel is empty.)
FlushMoreUnbounded(i) == TRUE

\* `for _ in 0..256` (main.rs:74)
FlushMore(i) == i < FlushBatch

\* main.rs:75-78: try_recv gives a PubMsg, which is sent.
FlushRecv ==
    /\ pc[Ingest] = "flush"
    /\ pub_enabled
    /\ FlushMore(Len(op[Ingest].out))
    /\ pub_rx # <<>>
    /\ pub_sent' = Append(pub_sent, Head(pub_rx))
    /\ pub_rx' = Tail(pub_rx)
    /\ op' = [op EXCEPT ![Ingest].out = Append(@, Head(pub_rx))]
    /\ UNCHANGED <<cfg_vars, metric_vars, list_vars, rpc_vars, store_vars, hist_vars,
                   shard_w, pc, ret, pub_enabled, acked>>

\* main.rs:72, 74, 79-80, 86: the loop ends (publishing is off, the count
\* is reached or the channel is empty) and the thread is in
\* pull.recv_bytes(0).
FlushEnd ==
    /\ pc[Ingest] = "flush"
    /\ \/ ~pub_enabled
       \/ ~FlushMore(Len(op[Ingest].out))
       \/ pub_rx = <<>>
    /\ pc' = [pc EXCEPT ![Ingest] = "idle"]
    /\ op' = [op EXCEPT ![Ingest] = NoOp]
    /\ UNCHANGED <<cfg_vars, metric_vars, list_vars, rpc_vars, store_vars, hist_vars,
                   shard_w, ret, pub_vars>>

\* main.rs:86-110: an ingest message that stores nothing (a batch without
\* items) is received and handled; the thread is at the top of its loop.
IngestEmpty ==
    /\ pc[Ingest] = "idle"
    /\ pc' = [pc EXCEPT ![Ingest] = "flush"]
    /\ op' = [op EXCEPT ![Ingest] = Call("flush", "", <<>>)]
    /\ UNCHANGED <<cfg_vars, metric_vars, list_vars, rpc_vars, store_vars, hist_vars,
                   shard_w, ret, pub_vars>>

\* handle_publish_mp (handlers.rs:371-442) of a worker that has answered
\* nothing yet: the event is published and its PubMsg queued.
QueuePubMsg(t, topic, payload) ==
    /\ pc[t] = "idle"
    /\ ret[t] = NoRet
    /\ LET st == Publish(StoreState, topic, payload)
       IN  /\ SetStore(st)
           /\ pub_rx' = Append(pub_rx, PubMsgMp(st.out[1]))
           /\ acked' = Append(acked, st.out[1])
           /\ ret' = [ret EXCEPT ![t] =
                        [kind |-> "accepted", items |-> st.out]]
    /\ unchecked' = TRUE
    /\ UNCHANGED <<cfg_vars, calls, list_vars, rpc_vars, shard_w, pc, op,
                   pub_enabled, pub_sent>>

\* The PubMsg of n binary-path publishes on "t1" are queued and the ingest
\* thread waits in pull.recv_bytes(0), for n around the bound of the loop.
BInit ==
    /\ maxlen = MaxStoreMaxlen
    /\ topic_max = CfgTopicMax
    /\ stores = MpStateNew(maxlen, topic_max)
    /\ shard_of = [t \in Topics |-> t]
    /\ shard_w = [s \in Shards |-> NoThread]
    /\ pc = [t \in Threads |-> "idle"]
    /\ op = [t \in Threads |-> NoOp]
    /\ ret = [t \in Threads |-> NoRet]
    /\ pub_enabled \in BOOLEAN
    /\ pub_sent = <<>>
    /\ xs = <<>>
    /\ ys = <<>>
    /\ calls = NoCalls
    /\ RpcInit
    /\ \E n \in {0, 1, FlushBatch - 1, FlushBatch, FlushBatch + 1} :
         LET evs == [i \in 1 .. n |->
                       MkEvent(i, NowTs, StoreName, "t1",
                               Payload("A", "", 5, NoTs, ""))]
             q == LastN(evs, Min(maxlen, n))
         IN  /\ next_seq = n + 1
             /\ topics = IF n = 0 THEN EmptyMap ELSE Put(EmptyMap, "t1", q)
             /\ meta = IF n = 0 THEN EmptyMap
                       ELSE Put(EmptyMap, "t1", [count_total |-> n])
             /\ read_cache = IF n = 0 THEN EmptyMap
                             ELSE Put(EmptyMap, "t1", q)
             /\ metrics = MetricsAfter(n)
             /\ created = evs
             /\ pushed = [t \in Topics |-> IF t = "t1" THEN evs ELSE <<>>]
             /\ unchecked = (n > 0)
             /\ acked = evs
             /\ pub_rx = [i \in 1 .. n |-> PubMsgMp(evs[i])]

BNext ==
    \/ FlushRecv
    \/ FlushEnd
    \/ IngestEmpty
    \/ \E t \in Workers, payload \in Payloads : QueuePubMsg(t, "t1", payload)

BSpec == BInit /\ [][BNext]_vars

\* The ingest thread is scheduled (main.rs:58, thread::spawn): the steps of
\* the flush loop are taken.  Messages and requests come from outside.
BFairSpec == BSpec /\ WF_vars(FlushRecv) /\ WF_vars(FlushEnd)

\* the PubMsg queued so far, in the order of queueing
Queued == [i \in 1 .. Len(acked) |-> PubMsgMp(acked[i])]

\* C34: in each turn of the ingest loop at most 256 queued fan-out messages
\* are sent before the ingest receive is reached, and it is reached whatever
\* the workers queue meanwhile; the messages go out in the order they were
\* queued.
C34_FlushBounded ==
    /\ [](Len(op[Ingest].out) <= FlushBatch)
    /\ [](pub_sent \o pub_rx = Queued)
    /\ (pc[Ingest] = "flush") ~> (pc[Ingest] = "idle")

\* The ingest receive is reached with exactly 256 messages sent and the
\* 257th and a later one still queued.
C34_Witness ==
    /\ pc[Ingest] = "idle"
    /\ Len(pub_sent) = FlushBatch
    /\ Len(pub_rx) = 2
    /\ pub_rx[1] = Queued[FlushBatch + 1]

(* --------------- binary operators on lists with equal ids -------------- *)
\* Events of one store: one without an id, and two whose id is the decimal
\* string of the seq of the first.
DEvents ==
    {MkEvent(1, NowTs, StoreName, "t1", Payload("A", "", 5, NoTs, "")),
     MkEvent(2, NowTs, StoreName, "t1", Payload("A", "k", 9, 1, "1")),
     MkEvent(3, NowTs, StoreName, "t2", Payload("B", "k", 5, 5, "1"))}

DInit ==
    /\ maxlen = MaxQSeq
    /\ topic_max = Cardinality(Topics)
    /\ stores = MpStateNew(maxlen, topic_max)
    /\ shard_of = [t \in Topics |-> t]
    /\ next_seq = MaxQSeq + 1
    /\ topics = EmptyMap
    /\ pushed = [t \in Topics |-> <<>>]
    /\ meta = EmptyMap
    /\ read_cache = EmptyMap
    /\ shard_w = [s \in Shards |-> NoThread]
    /\ pc = [t \in Threads |-> "idle"]
    /\ op = [t \in Threads |-> NoOp]
    /\ ret = [t \in Threads |-> NoRet]
    /\ created = <<>>
    /\ unchecked = FALSE
    /\ pub_enabled = TRUE
    /\ pub_rx = <<>>
    /\ pub_sent = <<>>
    /\ acked = <<>>
    /\ xs \in SeqsUpTo(DEvents, MaxListLen)
    /\ ys \in SeqsUpTo(DEvents, MaxListLen)
    /\ metrics = MetricsAfter(next_seq - 1)
    /\ calls = NoCalls
    /\ RpcInit

\* apply_binary_op on the results of apply_binary_op: the intersection and
\* the difference of xs and ys, the merge of the two, and merge(xs, xs).
DPartition(t) ==
    LET inter == ApplyBinaryOp(xs, ys, "intersection")
        diff == ApplyBinaryOp(xs, ys, "difference")
    IN  Answer(t, [op |-> "partition"],
               [kind |-> "partition",
                items |-> [inter |-> inter, diff |-> diff,
                           merged |-> ApplyBinaryOp(inter, diff, "merge"),
                           self |-> ApplyBinaryOp(xs, xs, "merge")]])

DNext ==
    \/ /\ ret[QWorker] = NoRet
       /\ \E o \in {"merge", "intersection", "difference"} :
             LBinary(QWorker, o)
    \/ /\ ret[QWorker] = NoRet
       /\ DPartition(QWorker)

DSpec == DInit /\ [][DNext]_vars

\* The dedupe key as the text puts it: the id when it is a non-empty string,
\* otherwise the seq, the two kinds kept apart.
ClaimedKey(ev) ==
    IF ev.index.id # "" THEN <<"id", ev.index.id>>
    ELSE <<"seq", Digits(ev.seq)>>

ClaimedKeys(q) == {ClaimedKey(q[i]) : i \in 1 .. Len(q)}

\* e is the first event of scan with its key
FirstOccurrence(e, scan) ==
    \E i \in 1 .. Len(scan) :
       /\ scan[i] = e
       /\ \A j \in 1 .. i - 1 : ClaimedKey(scan[j]) # ClaimedKey(e)

NoKeyTwice(items) ==
    \A i, j \in 1 .. Len(items) :
       i # j => ClaimedKey(items[i]) # ClaimedKey(items[j])

SeqDescending(items) ==
    \A i, j \in 1 .. Len(items) : i < j => items[i].seq >= items[j].seq

\* C35: the result of merge, intersection and difference of xs and ys holds
\* no two events with the same dedupe key (an id key and a seq key with the
\* same digits are different keys, so the result holds every key the
\* operation selects), is sorted by seq descending, and the event kept for a
\* key is its first occurrence scanning xs then ys (xs alone for
\* intersection and difference).
C35_BinaryDedupe ==
    Resp.kind = "binary" =>
       LET items == Resp.items
           o == Resp.req.op
           scan == IF o = "merge" THEN xs \o ys ELSE xs
           selected ==
              CASE o = "merge" -> ClaimedKeys(xs) \cup ClaimedKeys(ys)
                [] o = "intersection" -> ClaimedKeys(xs) \cap ClaimedKeys(ys)
                [] o = "difference" -> ClaimedKeys(xs) \ ClaimedKeys(ys)
       IN  /\ NoKeyTwice(items)
           /\ ClaimedKeys(items) = selected
           /\ SeqDescending(items)
           /\ \A i \in 1 .. Len(items) : FirstOccurrence(items[i], scan)

\* A merge whose result holds the event of seq 1 without id and the first of
\* two events of id "1", the second of which is dropped.
C35_Witness ==
    /\ Resp.kind = "binary"
    /\ Resp.req.op = "merge"
    /\ \E i, j \in 1 .. Len(Resp.items) :
          /\ Resp.items[i].seq = 1
          /\ Resp.items[i].index.id = ""
          /\ Resp.items[j].index.id = "1"
    /\ \E e \in Events(xs) \cup Events(ys) :
          /\ e.index.id = "1"
          /\ e \notin Events(Resp.items)

\* C40: intersection(xs, ys) and difference(xs, ys) partition the
\* deduplicated xs: every dedupe key of xs is the key of an event of exactly
\* one of the two results, every event of the two results is the first event
\* of xs with its key, and the merge of the two results is the list
\* merge(xs, xs).
C40_Partition ==
    Resp.kind = "partition" =>
       LET inter == Resp.items.inter
           diff == Resp.items.diff
       IN  /\ ClaimedKeys(inter) \cup ClaimedKeys(diff) = ClaimedKeys(xs)
           /\ ClaimedKeys(inter) \cap ClaimedKeys(diff) = {}
           /\ NoKeyTwice(inter)
           /\ NoKeyTwice(diff)
           /\ \A i \in 1 .. Len(inter) : FirstOccurrence(inter[i], xs)
           /\ \A i \in 1 .. Len(diff) : FirstOccurrence(diff[i], xs)
           /\ Resp.items.merged = Resp.items.self

\* A partition of a list xs that holds a key twice, with an event in the
\* intersection and an event in the difference.
C40_Witness ==
    /\ Resp.kind = "partition"
    /\ Len(xs) > Cardinality(ClaimedKeys(xs))
    /\ Resp.items.inter # <<>>
    /\ Resp.items.diff # <<>>
    /\ Len(Resp.items.merged) = 2

(* ----------------------- bus.replay on plan trees ---------------------- *)
\* number of events held by the topic the plans read
MaxHeld == 2

\* handle_replay_mp (handlers.rs:155-225) of a request that names a store
\* that exists and gives a plan that is a map
ReplayAnswer(plan, light) ==
    LET items == EvalPlanOpt(plan)
    IN  CASE items.tag = "panic" ->
                [kind |-> "panic", items |-> <<>>, message |-> ""]
          [] items.tag = "none" ->
                [kind |-> "BAD_ARGS", items |-> <<>>,
                 message |-> "unsupported plan"]
          [] items.tag = "some" ->
                [kind |-> "replay",
                 items |-> EventsToMpVec(Truncate(items.items,
                                                  GetRecentMaxLimit), light),
                 message |-> ""]

\* The store with topic "t1" holding up to MaxHeld events, as publishes that
\* returned leave it; the plugin_id of an event is "A", "B" or the text of
\* 1025 bytes whose byte 1024 lies inside a character.
TInit ==
    /\ maxlen = MaxStoreMaxlen
    /\ topic_max = CfgTopicMax
    /\ stores = MpStateNew(maxlen, topic_max)
    /\ shard_of = [t \in Topics |-> t]
    /\ \E k \in 0 .. MaxHeld :
          \E ids \in [1 .. k -> {"A", "B", LongText}] :
             LET evs == [i \in 1 .. k |->
                           MkEvent(i, NowTs, StoreName, "t1",
                                   Payload(ids[i], "", 5, NoTs, ""))]
             IN  /\ next_seq = k + 1
                 /\ topics = IF k = 0 THEN EmptyMap ELSE [t \in {"t1"} |-> evs]
                 /\ meta = IF k = 0 THEN EmptyMap
                           ELSE [t \in {"t1"} |-> [count_total |-> k]]
                 /\ pushed = [t \in Topics |-> IF t = "t1" THEN evs ELSE <<>>]
                 /\ created = evs
    /\ read_cache = EmptyMap
    /\ shard_w = [s \in Shards |-> NoThread]
    /\ pc = [t \in Threads |-> "idle"]
    /\ op = [t \in Threads |-> NoOp]
    /\ ret = [t \in Threads |-> NoRet]
    /\ unchecked = FALSE
    /\ pub_enabled = TRUE
    /\ pub_rx = <<>>
    /\ pub_sent = <<>>
    /\ acked = <<>>
    /\ xs = <<>>
    /\ ys = <<>>
    /\ metrics = MetricsAfter(next_seq - 1)
    /\ calls = NoCalls
    /\ RpcInit

\* A worker handles a bus.replay (main.rs:131-142): it holds the response, or
\* ends when the handler panics.
TReplay(t, plan, light) ==
    /\ t \in alive
    /\ pc[t] = "idle"
    /\ ret[t] = NoRet
    /\ LET resp == ReplayAnswer(plan, light)
       IN  /\ ret' = [ret EXCEPT ![t] =
                        [kind |-> resp.kind, items |-> resp.items,
                         message |-> resp.message,
                         req |-> [plan |-> plan, light |-> light]]]
           /\ alive' = IF resp.kind = "panic" THEN alive \ {t} ELSE alive
    /\ StoreRead(PlanGets(plan), 0)
    /\ UNCHANGED <<cfg_vars, pub_vars, list_vars, store_vars, shard_w, pc, op,
                   hist_vars, validate_mode, validate_payload_bytes, task_q,
                   result_q, task, router_in, handled, router_out, batch,
                   ingest_log>>

\* the leaf of the plans: the recent events of topic "t1"
TLeaf == Get(Args("t1", NoLimit, "", "", NoNum, NoNum, NoNum))

\* a node of a kind eval_plan does not know, and a node without `kind`
TScan == [kind |-> "scan"]
TNoKind == [kind |-> ""]

TLimit(child) == Unary("limit", [n |-> 1], child)
TRegex(child) ==
    Unary("where_regex",
          [field |-> "plugin_id", pattern |-> "^A*$", strict |-> TRUE], child)

\* plans every node of which is supported
TGoodPlans ==
    {TLeaf, TLimit(TLeaf), TRegex(TLeaf), TLimit(TRegex(TLeaf)),
     Unary("sort", [by |-> <<"priority">>, reverse |-> TRUE], TLeaf),
     Unary("where_eq", [field |-> "plugin_id", value |-> "A"], TLeaf),
     Unary("where_eq", [field |-> "plugin_id", value |-> "B"],
           TLimit(TLeaf))}
    \cup {Binary(o, TLeaf, TLimit(TLeaf)) : o \in BinaryOps}
    \cup {Binary("merge", TRegex(TLeaf), TLeaf),
          Binary("difference", TLeaf, TRegex(TLeaf))}

\* plans with a node that is not supported: at the root, in a child, on the
\* left, on the right, below a where_regex and beside one
TBadPlans ==
    {TScan, TNoKind,
     Unary("map", [n |-> 1], TLeaf),
     Binary("union", TLeaf, TLeaf),
     TLimit(NoNode),
     Binary("merge", NoNode, TLeaf),
     Binary("merge", TLeaf, NoNode),
     TLimit(Unary("map", [n |-> 1], TLeaf)),
     TLimit(TLimit(TScan)),
     TRegex(TScan),
     Binary("merge", TScan, TLeaf),
     Binary("merge", TLeaf, TLimit(TNoKind)),
     Binary("intersection", TLimit(NoNode), TLeaf),
     Binary("merge", TScan, TRegex(TLeaf)),
     Binary("merge", TRegex(TLeaf), TScan),
     TLimit(Binary("difference", TLeaf, Binary("union", TLeaf, TLeaf)))}

TPlans == TGoodPlans \cup TBadPlans

TNext ==
    /\ ret[QWorker] = NoRet
    /\ \E plan \in TPlans, light \in BOOLEAN : TReplay(QWorker, plan, light)

TSpec == TInit /\ [][TNext]_vars

RECURSIVE ClaimedUnsupported(_)
\* Some node of the tree is unsupported, as the text lists it: a kind other
\* than get, unary and binary, an op outside the listed sets, a missing
\* child, left or right.
ClaimedUnsupported(node) ==
    \/ node.kind \notin {"get", "unary", "binary"}
    \/ /\ node.kind = "unary"
       /\ \/ node.op \notin {"limit", "sort", "filter", "where_eq", "where_in",
                             "where_contains", "where_regex"}
          \/ ClaimedUnsupported(node.child)
    \/ /\ node.kind = "binary"
       /\ \/ node.op \notin {"merge", "intersection", "difference"}
          \/ ClaimedUnsupported(node.left)
          \/ ClaimedUnsupported(node.right)

\* the buffers, the metadata and the seq counter are as the publishes left
\* them
StoreAsPublished ==
    /\ Buffer("t1") = created
    /\ Buffer("t2") = <<>>
    /\ pushed["t1"] = created
    /\ next_seq = Len(created) + 1
    /\ DOMAIN meta = DOMAIN topics
    /\ \A t \in DOMAIN meta : meta[t].count_total = Len(created)

\* C36: a bus.replay is answered BAD_ARGS "unsupported plan" exactly when
\* some node of its plan is unsupported, wherever the node is and whatever
\* the store holds, and is answered ok otherwise; the buffers, the metadata
\* and the seq counter of the store are what they were.
C36_UnsupportedPlan ==
    Resp.kind # "none" =>
       LET bad == ClaimedUnsupported(Resp.req.plan)
       IN  /\ bad <=> (Resp.kind = "BAD_ARGS"
                         /\ Resp.message = "unsupported plan")
           /\ ~bad => Resp.kind = "replay"
           /\ StoreAsPublished

\* The operation has panicked (query.rs:68).
TPanicked == Resp.kind = "panic"

\* C36, for the requests whose evaluation does not panic.
C36_UnlessPanic == TPanicked \/ C36_UnsupportedPlan

(* ------------------------- where_regex on a list ----------------------- *)
VPatterns == {"A", "^A*$", "(", LongPattern, WidePattern}

\* apply_unary_op(items, "where_regex", {field: "plugin_id", pattern,
\* strict}) on the events of topic "t1", oldest first
VWhereRegex(t, pattern, strict) ==
    /\ t \in alive
    /\ pc[t] = "idle"
    /\ ret[t] = NoRet
    /\ LET params == [field |-> "plugin_id", pattern |-> pattern,
                      strict |-> strict]
           out == ApplyUnaryOpt(Buffer("t1"), "where_regex", params)
       IN  /\ ret' = [ret EXCEPT ![t] =
                        [kind |-> IF out.tag = "panic" THEN "panic"
                                  ELSE "where_regex",
                         items |-> out.items, req |-> params]]
           /\ alive' = IF out.tag = "panic" THEN alive \ {t} ELSE alive
    /\ UNCHANGED <<cfg_vars, metric_vars, pub_vars, list_vars, store_vars, shard_w, pc, op,
                   hist_vars, validate_mode, validate_payload_bytes, task_q,
                   result_q, task, router_in, handled, router_out, batch,
                   ingest_log>>

VNext ==
    /\ ret[QWorker] = NoRet
    /\ \E pattern \in VPatterns, strict \in BOOLEAN :
          VWhereRegex(QWorker, pattern, strict)

VSpec == TInit /\ [][VNext]_vars

\* the length of a pattern in characters
PatternChars(pattern) ==
    CASE pattern = "A" -> 1
      [] pattern = "^A*$" -> 4
      [] pattern = "(" -> 1
      [] pattern = LongPattern -> RegexPatternMax + 1
      [] pattern = WidePattern -> RegexPatternMax - 1

\* The field value matches the pattern; no text of the model holds the
\* characters of WidePattern.
ClaimedMatch(pattern, text) ==
    IF pattern = WidePattern THEN FALSE ELSE IsMatch(pattern, text)

\* C37: where_regex with a non-empty field and a pattern that is invalid or
\* longer than 128 characters gives the empty list when strict and the input
\* list when not strict; with a valid pattern it gives the input events
\* whose field value matches, in input order.
C37_WhereRegex ==
    Resp.kind # "none" =>
       LET pattern == Resp.req.pattern
           input == Buffer("t1")
           rejected == \/ ~ValidPattern(pattern)
                       \/ PatternChars(pattern) > RegexPatternMax
       IN  /\ Resp.kind = "where_regex"
           /\ rejected /\ Resp.req.strict => Resp.items = <<>>
           /\ rejected /\ ~Resp.req.strict => Resp.items = input
           /\ ~rejected =>
                 Resp.items =
                    Filter(input,
                           {ev \in Events(input) :
                               ClaimedMatch(pattern,
                                            FieldText(ev, Resp.req.field))})

\* C37, for the patterns that match the empty text or are rejected by their
\* length in bytes or by the regex compiler, on lists it does not panic on.
C37_OnPatternsMatchingEmpty ==
    \/ Resp.kind = "panic"
    \/ Resp.kind # "none" /\ Resp.req.pattern \in {"A", WidePattern}
    \/ C37_WhereRegex

(* --------------------------- the store metrics ------------------------- *)
\* Store::get_metrics (types.rs:75-84)
GetMetrics ==
    [total_events |-> IF next_seq >= 1 THEN next_seq - 1 ELSE 0,
     cache_hits |-> metrics.cache_hits,
     cache_misses |-> metrics.cache_misses,
     total_publishes |-> metrics.total_publishes,
     total_queries |-> metrics.total_queries]

\* Store::get_since (types.rs:211-240) called by a thread that is in no other
\* call; it waits for the guards of the shards it reads.
GetSinceCall(t, topic, after_seq, limit) ==
    /\ pc[t] = "idle"
    /\ calls.get_since < MaxGets
    /\ \A s \in Shards : shard_w[s] = NoThread
    /\ \E order \in IterOrders :
          ret' = [ret EXCEPT ![t] =
                    [kind |-> "since",
                     items |-> GetSince(topic, after_seq, limit, order)]]
    /\ StoreRead(<<>>, 1)
    /\ UNCHANGED <<cfg_vars, pub_vars, list_vars, rpc_vars, store_vars, shard_w,
                   pc, op, hist_vars>>

\* The publishing operations of the service with Store::publish taken from
\* call to return (one worker publishes, the other reads), and the two read
\* operations of the store.
KNext ==
    \/ \E t \in Workers \ {QWorker}, topic \in {"t1", ""},
          payload \in Payloads : HandlePublishMp(t, topic, payload)
    \/ FlushPubRx
    \/ \E payload \in Payloads : HandleDeltaBatch("t2", payload)
    \/ \E records \in SeqsUpTo(Payloads, MaxRecords) :
          HandleSnapshot("t1", records, "replace")
    \/ \E topic \in Topics : GetRecent(QWorker, topic, MaxLimit)
    \/ \E topic \in {"t1", "*"} : GetSinceCall(QWorker, topic, 0, MaxPub)

KSpec == PInit /\ [][KNext]_vars

\* no thread is inside Store::publish or Store::replace_topic
NoPublishInProgress == \A t \in Threads : pc[t] \in {"idle", "flush"}

MetricsConsistent ==
    /\ NoPublishInProgress =>
          /\ GetMetrics.total_publishes = Len(created)
          /\ GetMetrics.total_publishes = GetMetrics.total_events
          /\ {created[i].seq : i \in 1 .. Len(created)} = 1 .. Len(created)
    /\ GetMetrics.cache_hits + GetMetrics.cache_misses = calls.get_recent
    /\ GetMetrics.total_queries = calls.get_since

\* a step that is a get_recent or get_since call changes no counter but its
\* own, and no seq
ReadCountsItsOwn ==
    calls' # calls =>
       /\ next_seq' = next_seq
       /\ metrics'.total_publishes = metrics.total_publishes
       /\ calls'.get_recent # calls.get_recent =>
             metrics'.total_queries = metrics.total_queries
       /\ calls'.get_since # calls.get_since =>
             /\ metrics'.cache_hits = metrics.cache_hits
             /\ metrics'.cache_misses = metrics.cache_misses

\* C38: whenever no publish is in progress, total_publishes is the number of
\* events ever created in the store and is total_events (next_seq - 1), the
\* seqs created being 1, 2, ... without a gap, so that a rejected request
\* takes no seq; cache_hits + cache_misses is the number of get_recent
\* calls, total_queries the number of get_since calls, and a read changes no
\* counter other than its own.
C38_MetricsConsistent ==
    /\ []MetricsConsistent
    /\ [][ReadCountsItsOwn]_vars

\* MaxPub events published, a request rejected, a get_recent served from
\* the read cache and a get_since call made.
C38_Witness ==
    /\ GetMetrics.total_publishes = MaxPub
    /\ \E t \in Workers : ret[t].kind = "BAD_ARGS"
    /\ GetMetrics.cache_hits = 1
    /\ GetMetrics.total_queries = 1
    /\ ret[QWorker].kind = "since"
    /\ Len(ret[QWorker].items) = MaxPub


\* ---------------------------------------------------------------------------
\* The key sets of Store.meta, Store.topics and Store.read_cache

\* what the topic-cap check counts (handlers.rs:632, s.meta.len())
CountedTopics == Cardinality(DOMAIN meta)

\* the topic buffers that exist
ExistingBuffers == DOMAIN topics

\* C39: whenever no publish or replace_topic is in progress, the topic names
\* of the metadata map are the topic names of the topic-buffer map, so that
\* the topic-cap check counts exactly the existing buffers, and every topic
\* of the read cache is in both maps.
C39_SameTopics ==
    NoPublishInProgress =>
       /\ DOMAIN meta = ExistingBuffers
       /\ CountedTopics = Cardinality(ExistingBuffers)
       /\ DOMAIN read_cache \subseteq (DOMAIN meta) \cap ExistingBuffers

\* Both topics exist, one created by bus.publish and cached, then emptied by
\* a snapshot that replaced it, the other created by the ingest loop.
C39_Witness ==
    /\ NoPublishInProgress
    /\ DOMAIN topics = Topics
    /\ DOMAIN read_cache = Topics
    /\ topics["t1"] = <<>>
    /\ Len(read_cache["t1"]) = 1
    /\ Len(topics["t2"]) = 1

\* Inside a publish the two maps differ: the metadata entry exists before the
\* topic buffer does.
C39_InProgress ==
    \E t \in Threads :
       /\ pc[t] = "topics_entry"
       /\ DOMAIN meta # DOMAIN topics

\* a quiescent store holding a topic, with publish taken step by step
C39_QuiescentInSpec == NoPublishInProgress /\ DOMAIN topics # {}

=============================================================================
